---- MODULE Spec2Model ----
(***************************************************************************)
(* Context-window orchestration of memory-mcp: the ConversationOrchestrator*)
(* (persisting version), the conversation-state and archive collections of *)
(* the store, and the store connection set-up of db.ts.                    *)
(*                                                                         *)
(* Asynchronous calls are tasks.  A task runs the synchronous code of its  *)
(* call up to the next awaited store call in one step; the store call can  *)
(* succeed or fail (a failed connect() inside it included).                *)
(***************************************************************************)
EXTENDS Integers, Sequences, FiniteSets, TLC

\* ---------------------------------------------------------------- bounds
MaxContext == 4
MaxItems == 2
MaxObjs == 3
MaxWordCount == 5
MaxClients == 3
RoundWordCount == 10
SmallLimit == 1
MaxSummaries == 1
MaxMemories == 2
\* the entries SentenceBertScorer.embeddingCache may hold (1000 in the source)
MaxCacheEntries == 2
\* maxRequests of the rate limiter (100 by default)
MaxRequests == 2
\* windowMs of the rate limiter (60000 by default)
WindowMs == 2
\* the largest value Date.now() takes
MaxClock == 2
\* number of keys above which isAllowed cleans up (1000 in the source)
CleanupSize == 1
\* entries wordCountCache may hold (MAX_CACHE_SIZE, 1000 in the source)
MaxWordCacheSize == 2

\* ------------------------------------------------- configuration values
\* thresholds are kept as fractions Num / Den
ArchiveThresholdNum == 8
ArchiveThresholdDen == 10
RetrieveThresholdNum == 3
RetrieveThresholdDen == 10
ArchivePercentageNum == 3
ArchivePercentageDen == 10
MinRelevanceNum == 2
MinRelevanceDen == 10
RetrieveLimit == 5
RecommendationHighNum == 9
RecommendationHighDen == 10
RecommendationMediumNum == 7
RecommendationMediumDen == 10
RecommendationLowNum == 2
RecommendationLowDen == 10
\* createSummary: retrieveContext(conversationId, undefined, 0.1, 10)
SummaryMinNum == 1
SummaryMinDen == 10
SummaryLimit == 10

ConvIds == {"c1", "c2"}
TaskIds == {1, 2}
ObjIds == 1 .. MaxObjs

\* ------------------------------------------------------------------ text
\* A text is a sequence of characters; " " is the only whitespace used.
M1 == <<"a">>
M2 == <<"a", " ", "b">>
M3 == <<" ", "b">>
Msgs == {M1, M2, M3}

RECURSIVE SplitAcc(_, _, _, _, _)
SplitAcc(s, i, cur, acc, inWs) ==
  IF i > Len(s) THEN Append(acc, cur)
  ELSE IF s[i] = " "
       THEN IF inWs THEN SplitAcc(s, i + 1, cur, acc, TRUE)
            ELSE SplitAcc(s, i + 1, <<>>, Append(acc, cur), TRUE)
       ELSE SplitAcc(s, i + 1, Append(cur, s[i]), acc, FALSE)

\* text.split(/\s+/)
Split(s) == SplitAcc(s, 1, <<>>, <<>>, FALSE)

getWordCountNonEmpty(text) == Len(SelectSeq(Split(text), LAMBDA w : Len(w) > 0))

\* private getWordCount(text): text.split(/\s+/).length
getWordCount(text) == Len(Split(text))

RECURSIVE TrimLeft(_)
TrimLeft(s) == IF s # <<>> /\ Head(s) = " " THEN TrimLeft(Tail(s)) ELSE s

RECURSIVE TrimRight(_)
TrimRight(s) ==
  IF s # <<>> /\ s[Len(s)] = " " THEN TrimRight(SubSeq(s, 1, Len(s) - 1)) ELSE s

\* input.trim() of sanitizeInput
sanitizeInput(s) == TrimRight(TrimLeft(s))

RECURSIVE Join(_)
\* array.join(" ")
Join(texts) ==
  IF texts = <<>> THEN <<>>
  ELSE IF Len(texts) = 1 THEN texts[1]
  ELSE texts[1] \o <<" ">> \o Join(Tail(texts))

RECURSIVE SumWords(_)
\* messages.reduce((sum, msg) => sum + getWordCount(msg), 0)
SumWords(texts) ==
  IF texts = <<>> THEN 0 ELSE getWordCount(Head(texts)) + SumWords(Tail(texts))

SeqToSet(s) == {s[i] : i \in 1 .. Len(s)}

\* toLowerCase over the alphabet in use
toLowerCase(s) ==
  [i \in 1 .. Len(s) |-> IF s[i] = "A" THEN "a" ELSE IF s[i] = "B" THEN "b" ELSE s[i]]

\* ----------------------------------------------------------------- state
VARIABLES
  heap,             \* ConversationState objects, by reference
  conversations,    \* the orchestrator's cache: conversation id -> reference (0: absent)
  stateCollection,  \* store: conversation id -> persisted state document
  collection,       \* store: the Memory documents, in insertion order (_id = position)
  now,              \* store clock: timestamp given to the next archived batch
  held,             \* the result of the last addMessage of a conversation, as the caller holds it
  task,             \* the asynchronous calls in progress
  tasks,            \* the callers that issue calls
  convs,            \* the conversation ids the callers use
  texts,            \* the message texts the callers send
  maxWordCount,     \* the orchestrator's maxWordCount (constructor argument)
  retrieveLimit,    \* config.orchestrator.retrieveLimit (RETRIEVE_LIMIT, default 5)
  lastInit,         \* what the last initializeConversation of an id returned, or that the id was removed or a retrieval executed, while nothing touched the id since
  client,           \* db.ts: number of the MongoClient held in `client` (0: undefined)
  dbHandles,        \* db.ts: db, collection and stateCollection are set
  connectionPromise,\* db.ts: the connection attempt whose promise is held (0: null)
  attempt,          \* position of each connection attempt (the async closure of connect)
  caller,           \* position of each connect() caller, and the attempt it awaits
  clientsCreated,   \* number of MongoClient objects constructed so far
  indexesCreated,   \* createIndexes has completed
  lastFailed,       \* the last connection attempt that settled was rejected
  scorerConfig,     \* the ScorerConfig given to ScorerFactory.createScorer
  scorer,           \* the scorer that createScorer returned
  scoring,          \* the scoreRelevance call of a scorer: its arguments, position and result
  embeddingCache,   \* SentenceBertScorer.embeddingCache: the entries in insertion order
  requests,         \* RateLimiter.requests: key -> recorded timestamps (<<>>: the key is absent)
  clock,            \* the value Date.now() returned last
  accepted,         \* history: key -> timestamps of all requests isAllowed accepted
  clearedAt,        \* history: key -> how many of them were accepted before the last clear()
  cleared,          \* clear() has been called (it is called once at most)
  answer,           \* the last isAllowed call: its key, its Date.now() and what it returned
  wordCountCache,   \* wordcount: the entries of wordCountCache, in insertion order
  counted           \* the last getWordCount call: its arguments and what it returned

orchVars == <<heap, conversations, stateCollection, collection, now, held, task, tasks, convs, texts, maxWordCount, retrieveLimit, lastInit>>
scorerVars == <<scorerConfig, scorer, scoring, embeddingCache>>
limiterVars == <<requests, clock, accepted, clearedAt, cleared, answer>>
utilVars == <<requests, clock, accepted, clearedAt, cleared, answer, wordCountCache, counted>>
connVars == <<client, dbHandles, connectionPromise, attempt, caller, clientsCreated, indexesCreated, lastFailed>>
vars == <<heap, conversations, stateCollection, collection, now, held, task, tasks, convs, texts, maxWordCount, retrieveLimit, lastInit,
          client, dbHandles, connectionPromise, attempt, caller, clientsCreated, indexesCreated, lastFailed,
          scorerConfig, scorer, scoring, embeddingCache,
          requests, clock, accepted, clearedAt, cleared, answer, wordCountCache, counted>>

NullObj == [live |-> FALSE, conversationId |-> "", currentContext |-> <<>>, totalWordCount |-> 0]
NoDoc == [present |-> FALSE, currentContext |-> <<>>, totalWordCount |-> 0]
NoScore == [n |-> -1, d |-> 1]
NoResult == [valid |-> FALSE, state |-> 0, shouldArchive |-> FALSE, messagesToArchive |-> <<>>,
             shouldRetrieve |-> FALSE, contextToRetrieve |-> <<>>]
NoInit == [valid |-> FALSE, currentContext |-> <<>>, totalWordCount |-> 0, between |-> FALSE,
           removed |-> FALSE, retrieved |-> FALSE]
IdleTask == [pc |-> "idle", op |-> "none", conv |-> "", obj |-> 0, msg |-> <<>>,
             originalContext |-> <<>>, originalWordCount |-> 0,
             preContext |-> <<>>, preWordCount |-> 0,
             query |-> <<>>, shouldArchive |-> FALSE, messagesToArchive |-> <<>>,
             contextToRetrieve |-> <<>>, outcome |-> "none", storeFailed |-> FALSE,
             created |-> FALSE, prev |-> NoInit, at |-> "", source |-> "",
             recommendation |-> "", summaryId |-> 0]

\* the state document written by saveConversationState(state)
stateDoc(o) == [present |-> TRUE, currentContext |-> o.currentContext,
                totalWordCount |-> o.totalWordCount]

\* references that keep a state object alive
Refs(cv, hd, tk) ==
  ({cv[c] : c \in ConvIds} \cup {hd[c].state : c \in ConvIds} \cup {tk[t].obj : t \in TaskIds}) \ {0}

\* unreachable state objects are dropped
Collect(h, cv, hd, tk) == [o \in ObjIds |-> IF o \in Refs(cv, hd, tk) THEN h[o] ELSE NullObj]

CanAlloc == \E o \in ObjIds : ~heap[o].live
Alloc == CHOOSE o \in ObjIds : ~heap[o].live /\ \A p \in ObjIds : p < o => heap[p].live

InitOrch ==
  /\ heap = [o \in ObjIds |-> NullObj]
  /\ conversations = [c \in ConvIds |-> 0]
  /\ stateCollection = [c \in ConvIds |-> NoDoc]
  /\ collection = <<>>
  /\ now = 1
  /\ held = [c \in ConvIds |-> NoResult]
  /\ task = [t \in TaskIds |-> IdleTask]
  /\ lastInit = [c \in ConvIds |-> NoInit]

AttemptIds == 1 .. MaxClients
IdleCaller == [pc |-> "idle", awaiting |-> 0]

InitConn ==
  /\ client = 0
  /\ dbHandles = FALSE
  /\ connectionPromise = 0
  /\ attempt = [k \in AttemptIds |-> "none"]
  /\ caller = [t \in TaskIds |-> IdleCaller]
  /\ clientsCreated = 0
  /\ indexesCreated = FALSE
  /\ lastFailed = FALSE

\* state after a first connect() has succeeded: every later connect() returns at once
InitConnected ==
  /\ client = 1
  /\ dbHandles = TRUE
  /\ connectionPromise = 0
  /\ attempt = [k \in AttemptIds |-> IF k = 1 THEN "resolved" ELSE "none"]
  /\ caller = [t \in TaskIds |-> IdleCaller]
  /\ clientsCreated = 1
  /\ indexesCreated = TRUE
  /\ lastFailed = FALSE

\* an optional value is a sequence of at most one element (<<>>: undefined)
NoConfig == [type |-> "none", sbertModel |-> <<>>, sbertServiceUrl |-> <<>>,
             sbertTimeout |-> <<>>, customScorer |-> <<>>]
NoScorer == [name |-> "none", model |-> "", serviceUrl |-> "", timeout |-> 0]
IdleScoring == [pc |-> "idle", currentContext |-> <<>>, memories |-> <<>>,
                currentEmbedding |-> <<>>, pending |-> {}, scored |-> <<>>, warned |-> {},
                result |-> <<>>, outcome |-> "none"]

\* rate limiter keys
Keys == {"k1", "k2"}

NoAnswer == [valid |-> FALSE, key |-> "", now |-> 0, allowed |-> FALSE]
NoCount == [valid |-> FALSE, text |-> <<>>, useCache |-> FALSE, count |-> 0]

\* a new RateLimiter: requests = new Map()
InitRateLimiter ==
  /\ requests = [k \in Keys |-> <<>>]
  /\ clock = 0
  /\ accepted = [k \in Keys |-> <<>>]
  /\ clearedAt = [k \in Keys |-> 0]
  /\ cleared = FALSE
  /\ answer = NoAnswer

\* wordCountCache = new Map()
InitWordCount ==
  /\ wordCountCache = <<>>
  /\ counted = NoCount

\* no scorer is in use, nor the rate limiter, nor the word count utility
InitNoScorer ==
  /\ scorerConfig = NoConfig
  /\ scorer = NoScorer
  /\ scoring = IdleScoring
  /\ embeddingCache = <<>>
  /\ InitRateLimiter
  /\ InitWordCount

\* ------------------------------------------------------- policy (pure)
\* usageRatio <= archiveThreshold is false
StrictlyAboveArchiveThreshold(o) ==
  ~(o.totalWordCount * ArchiveThresholdDen <= ArchiveThresholdNum * maxWordCount)

\* usageRatio < archiveThreshold is false
AboveArchiveThreshold(o) ==
  ~(o.totalWordCount * ArchiveThresholdDen < ArchiveThresholdNum * maxWordCount)

\* usageRatio >= retrieveThreshold
AtOrAboveRetrieveThreshold(o) ==
  o.totalWordCount * RetrieveThresholdDen >= RetrieveThresholdNum * maxWordCount

\* usageRatio > retrieveThreshold
AboveRetrieveThreshold(o) ==
  o.totalWordCount * RetrieveThresholdDen > RetrieveThresholdNum * maxWordCount

\* the newest messages instead of the oldest
NewestCandidates(ctx) ==
  SubSeq(ctx, Len(ctx) - (Len(ctx) * ArchivePercentageNum) \div ArchivePercentageDen + 1, Len(ctx))

\* currentContext.slice(0, Math.floor(currentContext.length * archivePercentage))
ArchiveCandidates(ctx) ==
  SubSeq(ctx, 1, (Len(ctx) * ArchivePercentageNum) \div ArchivePercentageDen)

\* a decision that is positive at every usage ratio
shouldArchiveAlways(o) ==
  [shouldArchive |-> TRUE, messagesToArchive |-> ArchiveCandidates(o.currentContext)]

\* shouldArchive(state)
shouldArchive(o) ==
  IF ~AboveArchiveThreshold(o)
  THEN [shouldArchive |-> FALSE, messagesToArchive |-> <<>>]
  ELSE [shouldArchive |-> TRUE, messagesToArchive |-> ArchiveCandidates(o.currentContext)]

\* Jaccard similarity of the two word sets, as a fraction
relevanceScore(currentContext, itemText) ==
  LET currentWords == SeqToSet(Split(toLowerCase(currentContext)))
      itemWords == SeqToSet(Split(toLowerCase(itemText)))
  IN [n |-> Cardinality(currentWords \cap itemWords),
      d |-> Cardinality(currentWords \cup itemWords)]

\* the collection after scoreRelevance(conversationId, currentContext)
scoreRelevance(coll, conversationId, currentContext) ==
  [i \in 1 .. Len(coll) |->
     IF coll[i].conversationId = conversationId /\ coll[i].contextType = "archived"
     THEN [coll[i] EXCEPT !.relevanceScore = relevanceScore(currentContext, coll[i].memories)]
     ELSE coll[i]]

ScoreGeq(a, num, den) == a # NoScore /\ a.n * den >= num * a.d
ScoreGt(a, b) == a.n * b.d > b.n * a.d

\* an ascending sort on the score
BeforeAscending(x, y) ==
  \/ ScoreGt(y.relevanceScore, x.relevanceScore)
  \/ /\ ~ScoreGt(x.relevanceScore, y.relevanceScore)
     /\ x.timestamp >= y.timestamp

\* sort({ relevanceScore: -1, timestamp: -1 }): x may come before y
Before(x, y) ==
  \/ ScoreGt(x.relevanceScore, y.relevanceScore)
  \/ /\ ~ScoreGt(y.relevanceScore, x.relevanceScore)
     /\ x.timestamp >= y.timestamp

\* the documents matched by the filter of retrieveContext
Matching(coll, conversationId, num, den) ==
  {i \in 1 .. Len(coll) :
     /\ coll[i].conversationId = conversationId
     /\ coll[i].contextType = "archived"
     /\ ScoreGeq(coll[i].relevanceScore, num, den)}

Min(a, b) == IF a < b THEN a ELSE b

\* the results retrieveContext(conversationId, undefined, min, limit) can return:
\* the first `limit` documents of an ordering of the matches that respects the sort
\* (documents with equal sort keys come in an order the store chooses)
retrieveContext(coll, conversationId, num, den, limit) ==
  LET ids == Matching(coll, conversationId, num, den)
      n == Cardinality(ids)
      orders == {f \in [1 .. n -> ids] :
                   /\ \A i, j \in 1 .. n : i < j => f[i] # f[j]
                   /\ \A i, j \in 1 .. n : i < j => Before(coll[f[i]], coll[f[j]])}
  IN {[i \in 1 .. Min(limit, n) |-> coll[f[i]]] : f \in orders}

\* the documents archiveContext inserts for contextMessages
archivedItems(coll, conversationId, contextMessages, ts) ==
  [i \in 1 .. Len(contextMessages) |->
     [id |-> Len(coll) + i,
      conversationId |-> conversationId,
      memories |-> sanitizeInput(contextMessages[i]),
      contextType |-> "archived",
      relevanceScore |-> NoScore,
      timestamp |-> ts,
      parentContextId |-> 0,
      wordCount |-> Len(Split(sanitizeInput(contextMessages[i])))]]

\* ------------------------------------------------------------- actions
\* the in-memory part of a step: new heap, cache, held results and tasks
Commit(h, cv, hd, tk) ==
  /\ heap' = Collect(h, cv, hd, tk)
  /\ conversations' = cv
  /\ held' = hd
  /\ task' = tk

\* a store call of the task failed and nothing catches it: the call throws
Throw(tk) == [tk EXCEPT !.pc = "done", !.outcome = "error", !.storeFailed = TRUE, !.at = tk.pc]

\* the message goes to the front of the window
unshiftMessage(o, message) ==
  [o EXCEPT !.currentContext = <<message>> \o @,
            !.totalWordCount = @ + getWordCount(message)]

\* state.currentContext.push(message); state.totalWordCount += getWordCount(message)
pushMessage(o, message) ==
  [o EXCEPT !.currentContext = Append(@, message),
            !.totalWordCount = @ + getWordCount(message)]

newState(conversationId) ==
  [live |-> TRUE, conversationId |-> conversationId, currentContext |-> <<>>, totalWordCount |-> 0]

\* what initializeConversation returned, as recorded in lastInit
initRecord(o) ==
  [valid |-> TRUE, currentContext |-> o.currentContext, totalWordCount |-> o.totalWordCount,
   between |-> FALSE, removed |-> FALSE, retrieved |-> FALSE]

\* lastInit after a call that works on conversation c
touched(c) ==
  [d \in ConvIds |-> IF d = c THEN NoInit
                     ELSE IF lastInit[d].valid THEN [lastInit[d] EXCEPT !.between = TRUE]
                     ELSE lastInit[d]]

\* initializeConversation returns state object o (heap h): an initializeConversation
\* call is done, an addMessage call goes on to push the message and save
ReturnFromInit(t, o, h, cv, src) ==
  IF task[t].op = "init"
  THEN /\ Commit(h, cv, held,
                 [task EXCEPT ![t] = [@ EXCEPT !.pc = "done", !.outcome = "ok", !.obj = o,
                                               !.source = src,
                                               !.prev = lastInit[task[t].conv]]])
       /\ lastInit' = [lastInit EXCEPT ![task[t].conv] = initRecord(h[o])]
  ELSE /\ Commit([h EXCEPT ![o] = pushMessage(@, task[t].msg)], cv, held,
                 [task EXCEPT ![t] = [@ EXCEPT !.pc = "save_add", !.obj = o, !.source = src,
                                               !.preContext = h[o].currentContext,
                                               !.preWordCount = h[o].totalWordCount]])
       /\ lastInit' = lastInit

\* a lookup that never finds the cached state
CacheLookupMiss(t) ==
  /\ task' = [task EXCEPT ![t] = [@ EXCEPT !.pc = "load"]]
  /\ UNCHANGED <<heap, conversations, held, lastInit>>

\* initializeConversation up to its first store call: the cache lookup
CacheLookup(t) ==
  LET c == task[t].conv IN
  IF conversations[c] # 0
  THEN ReturnFromInit(t, conversations[c], heap, conversations, "cache")
  ELSE /\ task' = [task EXCEPT ![t] = [@ EXCEPT !.pc = "load"]]
       /\ UNCHANGED <<heap, conversations, held, lastInit>>

\* a caller issues initializeConversation(c)
CallInitialize(t, c) ==
  /\ t \in tasks
  /\ c \in convs
  /\ task[t].pc = "idle"
  /\ task' = [task EXCEPT ![t] = [IdleTask EXCEPT !.pc = "lookup", !.op = "init", !.conv = c]]
  /\ lastInit' = [touched(c) EXCEPT ![c] = lastInit[c]]
  /\ UNCHANGED <<heap, conversations, stateCollection, collection, now, held, tasks, convs, texts, maxWordCount, retrieveLimit>>
  /\ UNCHANGED <<connVars, scorerVars, utilVars>>

KnownLength(c) ==
  IF conversations[c] # 0 THEN Len(heap[conversations[c]].currentContext)
  ELSE Len(stateCollection[c].currentContext)

RECURSIVE SumOver(_, _)
SumOver(f, S) ==
  IF S = {} THEN 0 ELSE LET x == CHOOSE y \in S : TRUE IN f[x] + SumOver(f, S \ {x})

\* messages held in the windows of all conversations (MaxContext bounds them)
LiveMessages == SumOver([c \in ConvIds |-> KnownLength(c)], ConvIds)

\* whether the call on c that completed last, with none on c since, was a
\* removeConversation or an executeRetrieval that went through
lastCall(c) ==
  [NoInit EXCEPT !.removed = lastInit[c].removed, !.retrieved = lastInit[c].retrieved]

\* a caller issues addMessage(c, m)
CallAddMessage(t, c, m) ==
  /\ t \in tasks
  /\ c \in convs
  /\ m \in texts
  /\ task[t].pc = "idle"
  /\ LiveMessages < MaxContext
  /\ task' = [task EXCEPT ![t] = [IdleTask EXCEPT !.pc = "lookup", !.op = "add", !.conv = c, !.msg = m,
                                                   !.prev = lastCall(c)]]
  /\ lastInit' = touched(c)
  /\ UNCHANGED <<heap, conversations, stateCollection, collection, now, held, tasks, convs, texts, maxWordCount, retrieveLimit>>
  /\ UNCHANGED <<connVars, scorerVars, utilVars>>

\* await connect() has returned: the cache is consulted
InitLookup(t) ==
  /\ task[t].pc = "lookup"
  /\ CacheLookup(t)
  /\ UNCHANGED <<stateCollection, collection, now, tasks, convs, texts, maxWordCount, retrieveLimit>>
  /\ UNCHANGED <<connVars, scorerVars, utilVars>>

\* a load that drops the stored window
getConversationStateEmpty(c) == newState(c)

\* the state getConversationState(conversationId) builds from the stored document
getConversationState(c) ==
  [live |-> TRUE, conversationId |-> c,
   currentContext |-> stateCollection[c].currentContext,
   totalWordCount |-> stateCollection[c].totalWordCount]

\* getConversationState(conversationId) settles
InitLoad(t) ==
  /\ task[t].pc = "load"
  /\ LET c == task[t].conv IN
     \/ /\ Commit(heap, conversations, held, [task EXCEPT ![t] = Throw(@)])
        /\ lastInit' = lastInit
     \/ /\ CanAlloc
        /\ stateCollection[c].present
        /\ LET o == Alloc
           IN ReturnFromInit(t, o, [heap EXCEPT ![o] = getConversationState(c)],
                             [conversations EXCEPT ![c] = o], "store")
     \/ /\ CanAlloc
        /\ ~stateCollection[c].present
        /\ LET o == Alloc
           IN Commit([heap EXCEPT ![o] = newState(c)],
                     [conversations EXCEPT ![c] = o], held,
                     [task EXCEPT ![t] = [@ EXCEPT !.pc = "save_new", !.obj = o, !.created = TRUE]])
        /\ lastInit' = lastInit
  /\ UNCHANGED <<stateCollection, collection, now, tasks, convs, texts, maxWordCount, retrieveLimit>>
  /\ UNCHANGED <<connVars, scorerVars, utilVars>>

\* saveConversationState(state) of the freshly created state settles
InitSave(t) ==
  /\ task[t].pc = "save_new"
  /\ \/ /\ Commit(heap, conversations, held, [task EXCEPT ![t] = Throw(@)])
        /\ UNCHANGED <<stateCollection, lastInit>>
     \/ /\ stateCollection' =
             [stateCollection EXCEPT ![heap[task[t].obj].conversationId] = stateDoc(heap[task[t].obj])]
        /\ ReturnFromInit(t, task[t].obj, heap, conversations, "fresh")
  /\ UNCHANGED <<collection, now, tasks, convs, texts, maxWordCount, retrieveLimit>>
  /\ UNCHANGED <<connVars, scorerVars, utilVars>>

\* the result addMessage returns to its caller
addResult(tk, o, shouldRetrieve, contextToRetrieve) ==
  [valid |-> TRUE, state |-> o,
   shouldArchive |-> tk.shouldArchive, messagesToArchive |-> tk.messagesToArchive,
   shouldRetrieve |-> shouldRetrieve, contextToRetrieve |-> contextToRetrieve]

\* saveConversationState(state) after the push settles; then shouldArchive and
\* shouldRetrieve up to its scoreRelevance call
AddSave(t) ==
  /\ task[t].pc = "save_add"
  /\ LET o == task[t].obj
         c == task[t].conv
         archiveDecision == shouldArchive(heap[o])
         tk == [task[t] EXCEPT !.shouldArchive = archiveDecision.shouldArchive,
                               !.messagesToArchive = archiveDecision.messagesToArchive]
     IN
     \/ /\ Commit(heap, conversations, held, [task EXCEPT ![t] = Throw(@)])
        /\ UNCHANGED stateCollection
     \/ /\ stateCollection' = [stateCollection EXCEPT ![heap[o].conversationId] = stateDoc(heap[o])]
        /\ IF AboveRetrieveThreshold(heap[o])
           THEN Commit(heap, conversations,
                       [held EXCEPT ![c] = addResult(tk, o, FALSE, <<>>)],
                       [task EXCEPT ![t] = [tk EXCEPT !.pc = "done", !.outcome = "ok"]])
           ELSE Commit(heap, conversations, held,
                       [task EXCEPT ![t] = [tk EXCEPT !.pc = "score",
                                                      !.query = Join(heap[o].currentContext)]])
  /\ UNCHANGED <<collection, now, tasks, convs, texts, maxWordCount, retrieveLimit, lastInit>>
  /\ UNCHANGED <<connVars, scorerVars, utilVars>>

\* scoreRelevance(conversationId, currentContextText) settles
AddScore(t) ==
  /\ task[t].pc = "score"
  /\ \/ /\ Commit(heap, conversations, held, [task EXCEPT ![t] = Throw(@)])
        /\ UNCHANGED collection
     \/ /\ collection' = scoreRelevance(collection, heap[task[t].obj].conversationId, task[t].query)
        /\ Commit(heap, conversations, held, [task EXCEPT ![t] = [@ EXCEPT !.pc = "retrieve"]])
  /\ UNCHANGED <<stateCollection, now, tasks, convs, texts, maxWordCount, retrieveLimit, lastInit>>
  /\ UNCHANGED <<connVars, scorerVars, utilVars>>

\* retrieveContext(conversationId, undefined, minRelevanceScore, retrieveLimit) settles
AddRetrieve(t) ==
  /\ task[t].pc = "retrieve"
  /\ LET o == task[t].obj
         c == task[t].conv
     IN
     \/ Commit(heap, conversations, held, [task EXCEPT ![t] = Throw(@)])
     \/ \E relevantContext \in retrieveContext(collection, heap[o].conversationId,
                                               MinRelevanceNum, MinRelevanceDen, retrieveLimit) :
          Commit(heap, conversations,
                 [held EXCEPT ![c] = addResult(task[t], o, Len(relevantContext) # 0, relevantContext)],
                 [task EXCEPT ![t] = [@ EXCEPT !.pc = "done", !.outcome = "ok"]])
  /\ UNCHANGED <<stateCollection, collection, now, tasks, convs, texts, maxWordCount, retrieveLimit, lastInit>>
  /\ UNCHANGED <<connVars, scorerVars, utilVars>>

\* a catch block that restores nothing
rollbackArchiveSkipped(o, tk) == o

\* catch block of executeArchive: state.currentContext = originalContext; state.totalWordCount = originalWordCount
rollbackArchive(o, tk) ==
  [o EXCEPT !.currentContext = tk.originalContext, !.totalWordCount = tk.originalWordCount]

\* a catch block that restores the word count and forgets the context
rollbackRetrievalCountOnly(o, tk) == [o EXCEPT !.totalWordCount = tk.originalWordCount]

\* catch block of executeRetrieval: state.currentContext = originalContext; state.totalWordCount = originalWordCount
rollbackRetrieval(o, tk) ==
  [o EXCEPT !.currentContext = tk.originalContext, !.totalWordCount = tk.originalWordCount]

\* a catch block that logs the error and returns normally
swallow(tk) == [tk EXCEPT !.pc = "done", !.outcome = "ok", !.storeFailed = TRUE, !.at = tk.pc]

\* `throw error` at the end of the catch blocks
rethrow(tk) == [tk EXCEPT !.pc = "done", !.outcome = "error", !.storeFailed = TRUE, !.at = tk.pc]

\* the newest messages leave the window instead of the oldest
removeNewest(o, messagesToArchive) ==
  [o EXCEPT !.currentContext = SubSeq(@, 1, Len(@) - Len(messagesToArchive)),
            !.totalWordCount = @ - SumWords(messagesToArchive)]

\* state.currentContext.slice(messagesToArchive.length); state.totalWordCount -= archivedWordCount
removeArchived(o, messagesToArchive) ==
  [o EXCEPT !.currentContext = SubSeq(@, Len(messagesToArchive) + 1, Len(@)),
            !.totalWordCount = @ - SumWords(messagesToArchive)]

RECURSIVE unshiftAll(_, _)
\* for (const item of contextToRetrieve) { currentContext.unshift(content); totalWordCount += getWordCount(content) }
unshiftAll(o, contextToRetrieve) ==
  IF contextToRetrieve = <<>> THEN o
  ELSE unshiftAll([o EXCEPT !.currentContext = <<Head(contextToRetrieve).memories>> \o @,
                            !.totalWordCount = @ + getWordCount(Head(contextToRetrieve).memories)],
                  Tail(contextToRetrieve))

\* a caller issues executeArchive(decision, state) with the result it holds for c
CallExecuteArchive(t, c) ==
  /\ t \in tasks
  /\ c \in convs
  /\ task[t].pc = "idle"
  /\ held[c].valid
  /\ LET o == held[c].state
         tk == [IdleTask EXCEPT !.op = "archive", !.conv = c, !.obj = o,
                                !.shouldArchive = held[c].shouldArchive,
                                !.messagesToArchive = held[c].messagesToArchive,
                                !.preContext = heap[o].currentContext,
                                !.preWordCount = heap[o].totalWordCount]
     IN IF ~held[c].shouldArchive
        THEN Commit(heap, conversations, held,
                    [task EXCEPT ![t] = [tk EXCEPT !.pc = "done", !.outcome = "ok"]])
        ELSE Commit(heap, conversations, held,
                    [task EXCEPT ![t] = [tk EXCEPT !.pc = "insert",
                                                   !.originalContext = heap[o].currentContext,
                                                   !.originalWordCount = heap[o].totalWordCount]])
  /\ lastInit' = touched(c)
  /\ UNCHANGED <<stateCollection, collection, now, tasks, convs, texts, maxWordCount, retrieveLimit>>
  /\ UNCHANGED <<connVars, scorerVars, utilVars>>

\* archiveContext(conversationId, messagesToArchive, ...) settles; insertMany rejects an empty batch
ArchiveInsert(t) ==
  /\ task[t].pc = "insert"
  /\ LET o == task[t].obj
         k == Len(task[t].messagesToArchive)
     IN
     \/ /\ Commit([heap EXCEPT ![o] = rollbackArchive(@, task[t])], conversations, held,
                  [task EXCEPT ![t] = rethrow(@)])
        /\ UNCHANGED <<collection, now>>
     \/ /\ k >= 1
        /\ Cardinality({i \in 1 .. Len(collection) : collection[i].contextType = "archived"}) + k
             <= MaxItems
        /\ collection' = collection \o
             archivedItems(collection, heap[o].conversationId, task[t].messagesToArchive, now)
        /\ now' = now + 1
        /\ Commit([heap EXCEPT ![o] = removeArchived(@, task[t].messagesToArchive)],
                  conversations, held,
                  [task EXCEPT ![t] = [@ EXCEPT !.pc = "save_arch"]])
  /\ UNCHANGED <<stateCollection, tasks, convs, texts, maxWordCount, retrieveLimit, lastInit>>
  /\ UNCHANGED <<connVars, scorerVars, utilVars>>

\* saveConversationState(state) of executeArchive settles
ArchiveSave(t) ==
  /\ task[t].pc = "save_arch"
  /\ LET o == task[t].obj IN
     \/ /\ Commit([heap EXCEPT ![o] = rollbackArchive(@, task[t])], conversations, held,
                  [task EXCEPT ![t] = rethrow(@)])
        /\ UNCHANGED stateCollection
     \/ /\ stateCollection' = [stateCollection EXCEPT ![heap[o].conversationId] = stateDoc(heap[o])]
        /\ Commit(heap, conversations, held,
                  [task EXCEPT ![t] = [@ EXCEPT !.pc = "done", !.outcome = "ok"]])
  /\ UNCHANGED <<collection, now, tasks, convs, texts, maxWordCount, retrieveLimit, lastInit>>
  /\ UNCHANGED <<connVars, scorerVars, utilVars>>

\* a caller issues executeRetrieval(decision, state) with the result it holds for c
CallExecuteRetrieval(t, c) ==
  /\ t \in tasks
  /\ c \in convs
  /\ task[t].pc = "idle"
  /\ held[c].valid
  /\ LiveMessages + Len(held[c].contextToRetrieve) <= MaxContext
  /\ Len(heap[held[c].state].currentContext) + Len(held[c].contextToRetrieve) <= MaxContext
  /\ LET o == held[c].state
         tk == [IdleTask EXCEPT !.op = "retrieval", !.conv = c, !.obj = o,
                                !.contextToRetrieve = held[c].contextToRetrieve,
                                !.preContext = heap[o].currentContext,
                                !.preWordCount = heap[o].totalWordCount]
     IN IF ~held[c].shouldRetrieve
        THEN Commit(heap, conversations, held,
                    [task EXCEPT ![t] = [tk EXCEPT !.pc = "done", !.outcome = "ok"]])
        ELSE Commit([heap EXCEPT ![o] = unshiftAll(@, held[c].contextToRetrieve)],
                    conversations, held,
                    [task EXCEPT ![t] = [tk EXCEPT !.pc = "save_retr",
                                                   !.originalContext = heap[o].currentContext,
                                                   !.originalWordCount = heap[o].totalWordCount]])
  /\ lastInit' = touched(c)
  /\ UNCHANGED <<stateCollection, collection, now, tasks, convs, texts, maxWordCount, retrieveLimit>>
  /\ UNCHANGED <<connVars, scorerVars, utilVars>>

\* saveConversationState(state) of executeRetrieval settles
RetrievalSave(t) ==
  /\ task[t].pc = "save_retr"
  /\ LET o == task[t].obj IN
     \/ /\ Commit([heap EXCEPT ![o] = rollbackRetrieval(@, task[t])], conversations, held,
                  [task EXCEPT ![t] = rethrow(@)])
        /\ UNCHANGED <<stateCollection, lastInit>>
     \/ /\ stateCollection' = [stateCollection EXCEPT ![heap[o].conversationId] = stateDoc(heap[o])]
        /\ Commit(heap, conversations, held,
                  [task EXCEPT ![t] = [@ EXCEPT !.pc = "done", !.outcome = "ok"]])
        /\ lastInit' = [lastInit EXCEPT ![task[t].conv] = [@ EXCEPT !.retrieved = TRUE]]
  /\ UNCHANGED <<collection, now, tasks, convs, texts, maxWordCount, retrieveLimit>>
  /\ UNCHANGED <<connVars, scorerVars, utilVars>>

\* a caller issues removeConversation(c): the cache entry goes at once
\* (the caller drops the addMessage result it held for c)
CallRemove(t, c) ==
  /\ t \in tasks
  /\ c \in convs
  /\ task[t].pc = "idle"
  /\ Commit(heap, [conversations EXCEPT ![c] = 0], [held EXCEPT ![c] = NoResult],
            [task EXCEPT ![t] = [IdleTask EXCEPT !.pc = "delete", !.op = "remove", !.conv = c]])
  /\ lastInit' = touched(c)
  /\ UNCHANGED <<stateCollection, collection, now, tasks, convs, texts, maxWordCount, retrieveLimit>>
  /\ UNCHANGED <<connVars, scorerVars, utilVars>>

\* the state documents of all conversations are deleted
deleteAllStates(sc, conversationId) == [d \in ConvIds |-> NoDoc]

\* no state document is deleted
deleteNoState(sc, conversationId) == sc

\* stateCollection.deleteOne({ conversationId })
deleteConversationState(sc, conversationId) == [sc EXCEPT ![conversationId] = NoDoc]

\* deleteConversationState(conversationId) settles
RemoveDelete(t) ==
  /\ task[t].pc = "delete"
  /\ \/ /\ Commit(heap, conversations, held, [task EXCEPT ![t] = Throw(@)])
        /\ UNCHANGED <<stateCollection, lastInit>>
     \/ /\ stateCollection' = deleteConversationState(stateCollection, task[t].conv)
        /\ Commit(heap, conversations, held,
                  [task EXCEPT ![t] = [@ EXCEPT !.pc = "done", !.outcome = "ok"]])
        /\ lastInit' = [lastInit EXCEPT ![task[t].conv] = [@ EXCEPT !.removed = TRUE]]
  /\ UNCHANGED <<collection, now, tasks, convs, texts, maxWordCount, retrieveLimit>>
  /\ UNCHANGED <<connVars, scorerVars, utilVars>>

\* the usage recommendation of getConversationStatus (the summary recommendation
\* needs more than summaryThreshold = 20 archived documents)
recommendation(o) ==
  IF o.totalWordCount * RecommendationHighDen > RecommendationHighNum * maxWordCount THEN "high"
  ELSE IF o.totalWordCount * RecommendationMediumDen > RecommendationMediumNum * maxWordCount THEN "medium"
  ELSE IF o.totalWordCount * RecommendationLowDen < RecommendationLowNum * maxWordCount THEN "low"
  ELSE "none"

\* a status query that rejects for an unknown conversation
getConversationStatusThrowing(tk, c) ==
  IF conversations[c] = 0
  THEN [tk EXCEPT !.pc = "done", !.outcome = "error", !.at = "not_found"]
  ELSE [tk EXCEPT !.pc = "done", !.outcome = "ok", !.obj = conversations[c],
                  !.recommendation = recommendation(heap[conversations[c]])]

\* getConversationStatus(conversationId): null for an unknown conversation,
\* else the cached state and a recommendation
getConversationStatus(tk, c) ==
  IF conversations[c] = 0
  THEN [tk EXCEPT !.pc = "done", !.outcome = "ok", !.obj = 0]
  ELSE [tk EXCEPT !.pc = "done", !.outcome = "ok", !.obj = conversations[c],
                  !.recommendation = recommendation(heap[conversations[c]])]

\* a caller issues getConversationStatus(c); the method has no await
CallGetStatus(t, c) ==
  /\ t \in tasks
  /\ c \in convs
  /\ task[t].pc = "idle"
  /\ Commit(heap, conversations, held,
            [task EXCEPT ![t] = getConversationStatus([IdleTask EXCEPT !.op = "status", !.conv = c], c)])
  /\ lastInit' = touched(c)
  /\ UNCHANGED <<stateCollection, collection, now, tasks, convs, texts, maxWordCount, retrieveLimit>>
  /\ UNCHANGED <<connVars, scorerVars, utilVars>>

\* a lookup that takes every conversation for known
knownConversationAlways(c) == TRUE

\* createSummary: this.getConversationState(conversationId) is not null
knownConversation(c) == conversations[c] # 0

\* a caller issues createSummary(c, summaryText): unknown conversations are rejected at once
CallCreateSummary(t, c, m) ==
  /\ t \in tasks
  /\ c \in convs
  /\ m \in texts
  /\ task[t].pc = "idle"
  /\ LET tk == [IdleTask EXCEPT !.op = "summary", !.conv = c, !.msg = m]
     IN IF ~knownConversation(c)
        THEN Commit(heap, conversations, held,
                    [task EXCEPT ![t] = [tk EXCEPT !.pc = "done", !.outcome = "error",
                                                   !.at = "not_found"]])
        ELSE Commit(heap, conversations, held,
                    [task EXCEPT ![t] = [tk EXCEPT !.pc = "sum_retrieve"]])
  /\ lastInit' = touched(c)
  /\ UNCHANGED <<stateCollection, collection, now, tasks, convs, texts, maxWordCount, retrieveLimit>>
  /\ UNCHANGED <<connVars, scorerVars, utilVars>>

\* every answer of the store counts as something to summarize
noArchivedItemsNever(items) == FALSE

\* if (archivedItems.length === 0) throw new Error("No archived items to summarize")
noArchivedItems(items) == Len(items) = 0

\* retrieveContext(conversationId, undefined, 0.1, 10) of createSummary settles
SumRetrieve(t) ==
  /\ task[t].pc = "sum_retrieve"
  /\ \/ Commit(heap, conversations, held, [task EXCEPT ![t] = Throw(@)])
     \/ \E items \in retrieveContext(collection, task[t].conv,
                                      SummaryMinNum, SummaryMinDen, SummaryLimit) :
          IF noArchivedItems(items)
          THEN Commit(heap, conversations, held,
                      [task EXCEPT ![t] = [@ EXCEPT !.pc = "done", !.outcome = "error",
                                                    !.at = "empty_input"]])
          ELSE Commit(heap, conversations, held,
                      [task EXCEPT ![t] = [@ EXCEPT !.pc = "sum_insert",
                                                    !.contextToRetrieve = items]])
  /\ UNCHANGED <<stateCollection, collection, now, tasks, convs, texts, maxWordCount, retrieveLimit, lastInit>>
  /\ UNCHANGED <<connVars, scorerVars, utilVars>>

\* the summary document of db.ts createSummary
summaryDoc(coll, conversationId, summaryText, ts) ==
  [id |-> Len(coll) + 1,
   conversationId |-> conversationId,
   memories |-> summaryText,
   contextType |-> "summary",
   relevanceScore |-> NoScore,
   timestamp |-> ts,
   parentContextId |-> 0,
   wordCount |-> Len(Split(summaryText))]

\* collection.insertOne(summaryDoc) of db.ts createSummary settles
SumInsert(t) ==
  /\ task[t].pc = "sum_insert"
  /\ \/ /\ Commit(heap, conversations, held, [task EXCEPT ![t] = Throw(@)])
        /\ UNCHANGED <<collection, now>>
     \/ /\ Cardinality({i \in 1 .. Len(collection) : collection[i].contextType = "summary"})
             < MaxSummaries
        /\ collection' = Append(collection, summaryDoc(collection, task[t].conv, task[t].msg, now))
        /\ now' = now + 1
        /\ Commit(heap, conversations, held,
                  [task EXCEPT ![t] = [@ EXCEPT !.pc = "sum_link", !.summaryId = Len(collection) + 1]])
  /\ UNCHANGED <<stateCollection, tasks, convs, texts, maxWordCount, retrieveLimit, lastInit>>
  /\ UNCHANGED <<connVars, scorerVars, utilVars>>

\* every archived document of the collection is linked, whatever the given items
linkAllArchived(coll, items, summaryId) ==
  [i \in 1 .. Len(coll) |->
     IF coll[i].contextType = "archived"
     THEN [coll[i] EXCEPT !.parentContextId = summaryId]
     ELSE coll[i]]

\* updateMany({ _id: { $in: itemIds } }, { $set: { contextType: "archived", parentContextId: summaryId } })
linkToSummary(coll, items, summaryId) ==
  LET itemIds == {items[j].id : j \in 1 .. Len(items)}
  IN [i \in 1 .. Len(coll) |->
        IF coll[i].id \in itemIds
        THEN [coll[i] EXCEPT !.contextType = "archived", !.parentContextId = summaryId]
        ELSE coll[i]]

\* collection.updateMany(...) of db.ts createSummary settles
SumLink(t) ==
  /\ task[t].pc = "sum_link"
  /\ \/ /\ Commit(heap, conversations, held, [task EXCEPT ![t] = Throw(@)])
        /\ UNCHANGED collection
     \/ /\ collection' = linkToSummary(collection, task[t].contextToRetrieve, task[t].summaryId)
        /\ Commit(heap, conversations, held,
                  [task EXCEPT ![t] = [@ EXCEPT !.pc = "done", !.outcome = "ok"]])
  /\ UNCHANGED <<stateCollection, now, tasks, convs, texts, maxWordCount, retrieveLimit, lastInit>>
  /\ UNCHANGED <<connVars, scorerVars, utilVars>>

\* the caller takes the outcome of its call
Return(t) ==
  /\ task[t].pc = "done"
  /\ Commit(heap, conversations, held, [task EXCEPT ![t] = IdleTask])
  /\ UNCHANGED <<stateCollection, collection, now, tasks, convs, texts, maxWordCount, retrieveLimit, lastInit>>
  /\ UNCHANGED <<connVars, scorerVars, utilVars>>

Next ==
  \/ \E t \in TaskIds, c \in ConvIds : CallInitialize(t, c)
  \/ \E t \in TaskIds, c \in ConvIds, m \in Msgs : CallAddMessage(t, c, m)
  \/ \E t \in TaskIds : InitLookup(t)
  \/ \E t \in TaskIds : InitLoad(t)
  \/ \E t \in TaskIds : InitSave(t)
  \/ \E t \in TaskIds : AddSave(t)
  \/ \E t \in TaskIds : AddScore(t)
  \/ \E t \in TaskIds : AddRetrieve(t)
  \/ \E t \in TaskIds, c \in ConvIds : CallExecuteArchive(t, c)
  \/ \E t \in TaskIds : ArchiveInsert(t)
  \/ \E t \in TaskIds : ArchiveSave(t)
  \/ \E t \in TaskIds, c \in ConvIds : CallExecuteRetrieval(t, c)
  \/ \E t \in TaskIds : RetrievalSave(t)
  \/ \E t \in TaskIds, c \in ConvIds : CallRemove(t, c)
  \/ \E t \in TaskIds : RemoveDelete(t)
  \/ \E t \in TaskIds : Return(t)

\* the calls above, status queries and summaries
NextSummary ==
  \/ Next
  \/ \E t \in TaskIds, c \in ConvIds : CallGetStatus(t, c)
  \/ \E t \in TaskIds, c \in ConvIds, m \in Msgs : CallCreateSummary(t, c, m)
  \/ \E t \in TaskIds : SumRetrieve(t)
  \/ \E t \in TaskIds : SumInsert(t)
  \/ \E t \in TaskIds : SumLink(t)

\* ------------------------------------------------------ connect (db.ts)
\* if (client && db && collection && stateCollection) return
Connected == client # 0 /\ dbHandles

\* if (connectionPromise) { await connectionPromise; return }
AttemptInFlight == connectionPromise # 0

Settled(k) == attempt[k] \in {"resolved", "rejected"}
InFlight == {k \in AttemptIds : attempt[k] \in {"connecting", "indexing"}}

\* a caller enters connect() and runs to its first await
CallConnect(t) ==
  /\ t \in tasks
  /\ caller[t].pc = "idle"
  /\ IF Connected
     THEN /\ caller' = [caller EXCEPT ![t] = [pc |-> "returned", awaiting |-> 0]]
          /\ UNCHANGED <<client, connectionPromise, attempt, clientsCreated>>
     ELSE IF AttemptInFlight
     THEN /\ caller' = [caller EXCEPT ![t] = [pc |-> "waiting", awaiting |-> connectionPromise]]
          /\ UNCHANGED <<client, connectionPromise, attempt, clientsCreated>>
     ELSE /\ clientsCreated < MaxClients
          /\ clientsCreated' = clientsCreated + 1
          /\ client' = clientsCreated + 1
          /\ attempt' = [attempt EXCEPT ![clientsCreated + 1] = "connecting"]
          /\ connectionPromise' = clientsCreated + 1
          /\ caller' = [caller EXCEPT ![t] = [pc |-> "owner", awaiting |-> clientsCreated + 1]]
  /\ UNCHANGED <<dbHandles, indexesCreated, lastFailed>>
  /\ UNCHANGED <<orchVars, scorerVars, utilVars>>

\* client.connect() of an attempt settles; on success the handles are set and createIndexes starts
AttemptConnect(k) ==
  /\ attempt[k] = "connecting"
  /\ \/ /\ attempt' = [attempt EXCEPT ![k] = "indexing"]
        /\ dbHandles' = TRUE
        /\ UNCHANGED lastFailed
     \/ /\ attempt' = [attempt EXCEPT ![k] = "rejected"]
        /\ lastFailed' = TRUE
        /\ UNCHANGED dbHandles
  /\ UNCHANGED <<client, connectionPromise, caller, clientsCreated, indexesCreated>>
  /\ UNCHANGED <<orchVars, scorerVars, utilVars>>

\* the createIndex calls of createIndexes settle
AttemptIndexes(k) ==
  /\ attempt[k] = "indexing"
  /\ \/ /\ attempt' = [attempt EXCEPT ![k] = "resolved"]
        /\ indexesCreated' = TRUE
        /\ lastFailed' = FALSE
     \/ /\ attempt' = [attempt EXCEPT ![k] = "rejected"]
        /\ lastFailed' = TRUE
        /\ UNCHANGED indexesCreated
  /\ UNCHANGED <<client, dbHandles, connectionPromise, caller, clientsCreated>>
  /\ UNCHANGED <<orchVars, scorerVars, utilVars>>

\* the outcome of connect() for a caller whose awaited attempt has settled
Outcome(k) == IF attempt[k] = "resolved" THEN "returned" ELSE "threw"

\* try { await connectionPromise } finally { connectionPromise = null }
OwnerFinally(t) ==
  /\ caller[t].pc = "owner"
  /\ Settled(caller[t].awaiting)
  /\ connectionPromise' = 0
  /\ caller' = [caller EXCEPT ![t] = [pc |-> Outcome(caller[t].awaiting), awaiting |-> 0]]
  /\ UNCHANGED <<client, dbHandles, attempt, clientsCreated, indexesCreated, lastFailed>>
  /\ UNCHANGED <<orchVars, scorerVars, utilVars>>

\* await connectionPromise of a waiting caller resumes (after the owner, which awaited first)
WaiterResume(t) ==
  /\ caller[t].pc = "waiting"
  /\ Settled(caller[t].awaiting)
  /\ \A u \in TaskIds : ~(caller[u].pc = "owner" /\ caller[u].awaiting = caller[t].awaiting)
  /\ caller' = [caller EXCEPT ![t] = [pc |-> Outcome(caller[t].awaiting), awaiting |-> 0]]
  /\ UNCHANGED <<client, dbHandles, connectionPromise, attempt, clientsCreated, indexesCreated, lastFailed>>
  /\ UNCHANGED <<orchVars, scorerVars, utilVars>>

\* the caller takes the outcome of connect()
ConnectReturn(t) ==
  /\ caller[t].pc \in {"returned", "threw"}
  /\ caller' = [caller EXCEPT ![t] = IdleCaller]
  /\ UNCHANGED <<client, dbHandles, connectionPromise, attempt, clientsCreated, indexesCreated, lastFailed>>
  /\ UNCHANGED <<orchVars, scorerVars, utilVars>>

NextConnect ==
  \/ \E t \in TaskIds : CallConnect(t)
  \/ \E k \in AttemptIds : AttemptConnect(k)
  \/ \E k \in AttemptIds : AttemptIndexes(k)
  \/ \E t \in TaskIds : OwnerFinally(t)
  \/ \E t \in TaskIds : WaiterResume(t)
  \/ \E t \in TaskIds : ConnectReturn(t)

\* the store connection, from module load, with two concurrent callers
InitConnect ==
  /\ InitOrch
  /\ InitNoScorer
  /\ tasks = {1, 2}
  /\ convs = {"c1"}
  /\ texts = {M1}
  /\ maxWordCount = MaxWordCount
  /\ retrieveLimit = RetrieveLimit
  /\ InitConn

SpecConnect == InitConnect /\ [][NextConnect]_vars

\* ---------------------------------------------------------------- scorers
SeqsUpTo(S, n) == UNION {[1 .. k -> S] : k \in 0 .. n}

\* --- ScorerFactory
DefaultModel == "all-MiniLM-L6-v2"
DefaultTimeout == 30000

\* a scorer instance given as config.customScorer
CustomScorer == [name |-> "mine", model |-> "", serviceUrl |-> "", timeout |-> 0]

\* the configurations given to createScorer ("tfidf" is not a ScorerType)
ScorerConfigs ==
  [type : {"keyword", "sbert", "custom", "tfidf"},
   sbertModel : {<<>>, <<"paraphrase-MiniLM">>},
   sbertServiceUrl : {<<>>, <<"">>, <<"http://sbert:8080">>},
   sbertTimeout : {<<>>, <<0>>, <<5000>>},
   customScorer : {<<>>, <<CustomScorer>>}]

\* new KeywordScorer()
KeywordScorer == [name |-> "keyword", model |-> "", serviceUrl |-> "", timeout |-> 0]

\* the scorer whose construction threw
FailedScorer == [name |-> "error", model |-> "", serviceUrl |-> "", timeout |-> 0]

\* !value of an optional string: undefined and "" are falsy
falsy(opt) == opt = <<>> \/ opt[1] = ""

\* new SentenceBertScorer({ model, serviceUrl, timeout }): timeout || 30000
SentenceBertScorer(model, serviceUrl, timeout) ==
  [name |-> "sbert", model |-> model, serviceUrl |-> serviceUrl,
   timeout |-> IF timeout = <<>> \/ timeout[1] = 0 THEN DefaultTimeout ELSE timeout[1]]

\* an incomplete or unknown configuration is an error
createScorerStrict(config) ==
  IF config.type = "keyword" THEN KeywordScorer
  ELSE IF config.type = "sbert" /\ ~falsy(config.sbertServiceUrl)
       THEN SentenceBertScorer(IF falsy(config.sbertModel) THEN DefaultModel
                               ELSE config.sbertModel[1],
                               config.sbertServiceUrl[1], config.sbertTimeout)
  ELSE IF config.type = "custom" /\ config.customScorer # <<>> THEN config.customScorer[1]
  ELSE FailedScorer

\* ScorerFactory.createScorer(config)
createScorer(config) ==
  IF config.type = "keyword" THEN KeywordScorer
  ELSE IF config.type = "sbert"
       THEN IF falsy(config.sbertServiceUrl) THEN KeywordScorer
            ELSE SentenceBertScorer(IF falsy(config.sbertModel) THEN DefaultModel
                                    ELSE config.sbertModel[1],
                                    config.sbertServiceUrl[1], config.sbertTimeout)
  ELSE IF config.type = "custom"
       THEN IF config.customScorer = <<>> THEN KeywordScorer ELSE config.customScorer[1]
  ELSE KeywordScorer

\* ScorerFactory.createScorer(scorerConfig) is called
CreateScorer ==
  /\ scorer = NoScorer
  /\ scorerConfig # NoConfig
  /\ scorer' = createScorer(scorerConfig)
  /\ UNCHANGED <<scorerConfig, scoring, embeddingCache>>
  /\ UNCHANGED <<orchVars, connVars, utilVars>>

\* --- BaseScorer
\* Math.max(0, Math.min(1, score)), on a fraction with a positive denominator
normalizeScore(score) ==
  IF score.n < 0 THEN [n |-> 0, d |-> 1]
  ELSE IF score.n > score.d THEN [n |-> 1, d |-> 1]
  ELSE score

RECURSIVE insertByRelevance(_, _)
\* x goes behind every element whose score is not lower (the sort is stable)
insertByRelevance(sorted, x) ==
  IF sorted = <<>> THEN <<x>>
  ELSE IF ScoreGt(x.relevanceScore, Head(sorted).relevanceScore) THEN <<x>> \o sorted
  ELSE <<Head(sorted)>> \o insertByRelevance(Tail(sorted), x)

RECURSIVE sortDescending(_)
\* a stable sort by descending relevanceScore
sortDescending(memories) ==
  IF memories = <<>> THEN <<>>
  ELSE insertByRelevance(sortDescending(SubSeq(memories, 1, Len(memories) - 1)),
                         memories[Len(memories)])

\* the memories stay in the order given
unsorted(memories) == memories

\* memories.sort((a, b) => (b.relevanceScore || 0) - (a.relevanceScore || 0))
sortByRelevance(memories) == sortDescending(memories)

\* --- KeywordScorer
\* union.size > 0 ? intersection.size / union.size : 0
keywordScore(currentContext, itemText) ==
  LET currentWords == SeqToSet(Split(toLowerCase(currentContext)))
      itemWords == SeqToSet(Split(toLowerCase(itemText)))
      intersection == currentWords \cap itemWords
      union == currentWords \cup itemWords
  IN IF Cardinality(union) > 0
     THEN [n |-> Cardinality(intersection), d |-> Cardinality(union)]
     ELSE [n |-> 0, d |-> 1]

\* { ...memory, relevanceScore }
scored(memory, score) ==
  [memories |-> memory.memories, embedding |-> memory.embedding, relevanceScore |-> score]

\* KeywordScorer.scoreRelevance(currentContext, memories)
keywordScoreRelevance(currentContext, memories) ==
  sortByRelevance([i \in 1 .. Len(memories) |->
     scored(memories[i],
            normalizeScore(keywordScore(currentContext, Join(memories[i].memories))))])

\* the texts given to the keyword scorer: "", "a", "a b", "b", "A"
KeywordTexts == {<<>>, M1, M2, <<"b">>, <<"A">>}
KeywordMemories ==
  {[memories |-> ms, embedding |-> <<>>] :
     ms \in {<<>>, <<<<>>>>, <<M1>>, <<<<"b">>>>, <<<<"A">>>>, <<M1, <<"b">>>>}}

\* scoreRelevance(currentContext, memories) of the keyword scorer: it has no await
KeywordScoreRelevance(currentContext, memories) ==
  /\ scorer.name = "keyword"
  /\ scoring.pc = "idle"
  /\ scoring' = [IdleScoring EXCEPT !.pc = "done", !.currentContext = currentContext,
                                    !.memories = memories, !.outcome = "ok",
                                    !.result = keywordScoreRelevance(currentContext, memories)]
  /\ UNCHANGED <<scorerConfig, scorer, embeddingCache>>
  /\ UNCHANGED <<orchVars, connVars, utilVars>>

\* the caller takes the result of scoreRelevance
ScoringReturn ==
  /\ scoring.pc = "done"
  /\ scoring' = IdleScoring
  /\ UNCHANGED <<scorerConfig, scorer, embeddingCache>>
  /\ UNCHANGED <<orchVars, connVars, utilVars>>

\* --- vectorUtils
RECURSIVE dotProduct(_, _)
dotProduct(a, b) ==
  IF a = <<>> THEN 0 ELSE Head(a) * Head(b) + dotProduct(Tail(a), Tail(b))

\* Math.sqrt, for the perfect squares that the embeddings in use give
sqrt(x) == CHOOSE r \in 0 .. x : r * r = x

\* cosineSimilarity(a, b) of vectors of equal length: (similarity + 1) / 2
cosineSimilarity(a, b) ==
  LET normA == sqrt(dotProduct(a, a))
      normB == sqrt(dotProduct(b, b))
  IN IF Len(a) = 0 THEN [n |-> 0, d |-> 1]
     ELSE IF normA = 0 \/ normB = 0 THEN [n |-> 0, d |-> 1]
     ELSE [n |-> dotProduct(a, b) + normA * normB, d |-> 2 * normA * normB]

\* --- SentenceBertScorer
\* the embeddings the provider answers with
Embeddings == {<<1>>, <<-1>>}
CacheKeyLength == 200

\* text.substring(0, 200)
getCacheKey(text) == SubSeq(text, 1, Min(Len(text), CacheKeyLength))

cacheHas(cache, key) == \E i \in 1 .. Len(cache) : cache[i].key = key
cacheGet(cache, key) == cache[CHOOSE i \in 1 .. Len(cache) : cache[i].key = key].embedding

\* Map.set: a key that is present keeps its place
cacheSet(cache, key, embedding) ==
  IF cacheHas(cache, key)
  THEN [i \in 1 .. Len(cache) |->
          IF cache[i].key = key THEN [key |-> key, embedding |-> embedding] ELSE cache[i]]
  ELSE Append(cache, [key |-> key, embedding |-> embedding])

\* if (size > limit) { firstKey = keys().next().value; if (firstKey) delete(firstKey) }:
\* the empty string is a falsy firstKey
evictOldest(cache) ==
  IF Len(cache) > MaxCacheEntries /\ cache[1].key # <<>> THEN Tail(cache) ELSE cache

\* the error of the item is thrown on
rethrowItem(sc, i) == [sc EXCEPT !.pc = "done", !.outcome = "error", !.pending = {}]

\* catch of the item: { ...memory, relevanceScore: 0 }
catchItem(sc, i) ==
  [sc EXCEPT !.scored[i] = scored(sc.memories[i], [n |-> 0, d |-> 1]),
             !.pending = @ \ {i}]

\* the body of the try of one item, with the embedding of its text at hand
scoreItem(sc, i, memoryEmbedding) ==
  IF Len(sc.currentEmbedding) # Len(memoryEmbedding)
  THEN catchItem(sc, i)
  ELSE [sc EXCEPT !.scored[i] =
                     [memories |-> sc.memories[i].memories,
                      embedding |-> <<memoryEmbedding>>,
                      relevanceScore |->
                        normalizeScore(cosineSimilarity(sc.currentEmbedding, memoryEmbedding))],
                  !.pending = @ \ {i}]

\* Promise.all has settled: return this.sortByRelevance(scoredMemories)
finish(sc) ==
  IF sc.pc = "items" /\ sc.pending = {}
  THEN [sc EXCEPT !.pc = "done", !.outcome = "ok", !.result = sortByRelevance(sc.scored)]
  ELSE sc

RECURSIVE startItems(_, _, _)
\* memories.map(async (memory) => ...) runs every item up to its first await:
\* items with an embedding, or with a cached text, are scored at once
startItems(sc, cache, i) ==
  IF i > Len(sc.memories) THEN sc
  ELSE LET memory == sc.memories[i]
           memoryText == Join(memory.memories)
           next == IF memory.embedding # <<>> THEN scoreItem(sc, i, memory.embedding[1])
                   ELSE IF cacheHas(cache, getCacheKey(memoryText))
                        THEN scoreItem(sc, i, cacheGet(cache, getCacheKey(memoryText)))
                        ELSE sc
       IN startItems(next, cache, i + 1)

\* the embedding of currentContext is at hand
withCurrentEmbedding(sc, cache, embedding) ==
  finish(startItems([sc EXCEPT !.pc = "items", !.currentEmbedding = embedding,
                               !.pending = 1 .. Len(sc.memories),
                               !.scored = [i \in 1 .. Len(sc.memories) |->
                                             scored(sc.memories[i], NoScore)]],
                    cache, 1))

\* the texts given to the SBERT scorer: "", "a", "b"
SbertTexts == {<<>>, M1, <<"b">>}
SbertMemories ==
  {[memories |-> <<text>>, embedding |-> <<>>] : text \in SbertTexts}
  \cup {[memories |-> <<M1>>, embedding |-> <<e>>] : e \in {<<1>>, <<0, 1>>}}

\* scoreRelevance(currentContext, memories) of the SBERT scorer is called:
\* getEmbedding(currentContext) answers from the cache or asks the provider
SbertScoreRelevance(currentContext, memories) ==
  /\ scorer.name = "sbert"
  /\ scoring.pc = "idle"
  /\ LET sc == [IdleScoring EXCEPT !.currentContext = currentContext, !.memories = memories]
         cacheKey == getCacheKey(currentContext)
     IN IF cacheHas(embeddingCache, cacheKey)
        THEN scoring' = withCurrentEmbedding(sc, embeddingCache, cacheGet(embeddingCache, cacheKey))
        ELSE scoring' = [sc EXCEPT !.pc = "query"]
  /\ UNCHANGED <<scorerConfig, scorer, embeddingCache>>
  /\ UNCHANGED <<orchVars, connVars, utilVars>>

\* the provider call for currentContext settles: a failure leaves the outer try
\* and is thrown on as "Failed to score relevance with SBERT"
QueryFetch ==
  /\ scoring.pc = "query"
  /\ \/ /\ scoring' = [scoring EXCEPT !.pc = "done", !.outcome = "error"]
        /\ UNCHANGED embeddingCache
     \/ \E embedding \in Embeddings :
          /\ embeddingCache' = evictOldest(cacheSet(embeddingCache,
                                                    getCacheKey(scoring.currentContext), embedding))
          /\ scoring' = withCurrentEmbedding(scoring, embeddingCache', embedding)
  /\ UNCHANGED <<scorerConfig, scorer>>
  /\ UNCHANGED <<orchVars, connVars, utilVars>>

\* the provider call for the text of item i settles
ItemFetch(i) ==
  /\ scoring.pc = "items"
  /\ i \in scoring.pending
  /\ \/ /\ scoring' = finish([catchItem(scoring, i) EXCEPT !.warned = @ \cup {i}])
        /\ UNCHANGED embeddingCache
     \/ \E embedding \in Embeddings :
          /\ embeddingCache' = evictOldest(cacheSet(embeddingCache,
                                  getCacheKey(Join(scoring.memories[i].memories)), embedding))
          /\ scoring' = finish(scoreItem(scoring, i, embedding))
  /\ UNCHANGED <<scorerConfig, scorer>>
  /\ UNCHANGED <<orchVars, connVars, utilVars>>

\* --- specifications of the scorers
InitNoOrchestrator ==
  /\ InitOrch
  /\ InitConnected
  /\ InitRateLimiter
  /\ InitWordCount
  /\ tasks = {}
  /\ convs = {}
  /\ texts = {}
  /\ maxWordCount = MaxWordCount
  /\ retrieveLimit = RetrieveLimit

\* ScorerFactory.createScorer over the configurations
InitFactory ==
  /\ InitNoOrchestrator
  /\ scorerConfig \in ScorerConfigs
  /\ scorer = NoScorer
  /\ scoring = IdleScoring
  /\ embeddingCache = <<>>

SpecFactory == InitFactory /\ [][CreateScorer]_vars

\* the keyword scorer over texts and lists of memories
InitKeyword ==
  /\ InitNoOrchestrator
  /\ scorerConfig = [NoConfig EXCEPT !.type = "keyword"]
  /\ scorer = createScorer(scorerConfig)
  /\ scoring = IdleScoring
  /\ embeddingCache = <<>>

NextKeyword ==
  \/ \E currentContext \in KeywordTexts, memories \in SeqsUpTo(KeywordMemories, MaxMemories) :
       KeywordScoreRelevance(currentContext, memories)
  \/ ScoringReturn

SpecKeyword == InitKeyword /\ [][NextKeyword]_vars

\* the SBERT scorer: one scoreRelevance call after the other on one instance
InitSbert ==
  /\ InitNoOrchestrator
  /\ scorerConfig = [NoConfig EXCEPT !.type = "sbert", !.sbertServiceUrl = <<"http://sbert:8080">>]
  /\ scorer = createScorer(scorerConfig)
  /\ scoring = IdleScoring
  /\ embeddingCache = <<>>

NextSbert ==
  \/ \E currentContext \in SbertTexts, memories \in SeqsUpTo(SbertMemories, MaxMemories) :
       SbertScoreRelevance(currentContext, memories)
  \/ QueryFetch
  \/ \E i \in 1 .. MaxMemories : ItemFetch(i)
  \/ ScoringReturn

SpecSbert == InitSbert /\ [][NextSbert]_vars

\* ------------------------------------------- specifications (orchestrator)
\* one caller and one conversation: calls are issued one after the other
Init ==
  /\ InitOrch
  /\ InitNoScorer
  /\ tasks = {1}
  /\ convs = {"c1"}
  /\ texts = {M1, M2}
  /\ maxWordCount = MaxWordCount
  /\ retrieveLimit = RetrieveLimit
  /\ InitConnected

Spec == Init /\ [][Next]_vars

\* two callers on one conversation: calls overlap at their await points
InitConc ==
  /\ InitOrch
  /\ InitNoScorer
  /\ tasks = {1, 2}
  /\ convs = {"c1"}
  /\ texts = {M1}
  /\ maxWordCount = MaxWordCount
  /\ retrieveLimit = RetrieveLimit
  /\ InitConnected

\* the calls of the two callers: addMessage and executeArchive
NextConc ==
  \/ \E t \in TaskIds, c \in ConvIds, m \in Msgs : CallAddMessage(t, c, m)
  \/ \E t \in TaskIds : InitLookup(t)
  \/ \E t \in TaskIds : InitLoad(t)
  \/ \E t \in TaskIds : InitSave(t)
  \/ \E t \in TaskIds : AddSave(t)
  \/ \E t \in TaskIds : AddScore(t)
  \/ \E t \in TaskIds : AddRetrieve(t)
  \/ \E t \in TaskIds, c \in ConvIds : CallExecuteArchive(t, c)
  \/ \E t \in TaskIds : ArchiveInsert(t)
  \/ \E t \in TaskIds : ArchiveSave(t)
  \/ \E t \in TaskIds : Return(t)

SpecConc == InitConc /\ [][NextConc]_vars

\* one caller and two conversations
InitTwo ==
  /\ InitOrch
  /\ InitNoScorer
  /\ tasks = {1}
  /\ convs = {"c1", "c2"}
  /\ texts = {M1}
  /\ maxWordCount = MaxWordCount
  /\ retrieveLimit = RetrieveLimit
  /\ InitConnected

SpecTwo == InitTwo /\ [][Next]_vars

\* one caller and one conversation; a message can start with whitespace
InitPadded ==
  /\ InitOrch
  /\ InitNoScorer
  /\ tasks = {1}
  /\ convs = {"c1"}
  /\ texts = {M1, M3}
  /\ maxWordCount = MaxWordCount
  /\ retrieveLimit = RetrieveLimit
  /\ InitConnected

SpecPadded == InitPadded /\ [][Next]_vars

\* one caller and one conversation, with a maxWordCount that the thresholds divide evenly
InitRound ==
  /\ InitOrch
  /\ InitNoScorer
  /\ tasks = {1}
  /\ convs = {"c1"}
  /\ texts = {M1, M2}
  /\ maxWordCount = RoundWordCount
  /\ retrieveLimit = RetrieveLimit
  /\ InitConnected

SpecRound == InitRound /\ [][Next]_vars

\* an orchestrator constructed with maxWordCount 10 on a store that an earlier
\* orchestrator (maxWordCount 5) left behind: it had archived the message 'a' of
\* c1 with archiveContext and removed the conversation, so the store holds that
\* archived document, still without a score, and no state document
InitRestart ==
  /\ heap = [o \in ObjIds |-> NullObj]
  /\ conversations = [c \in ConvIds |-> 0]
  /\ stateCollection = [c \in ConvIds |-> NoDoc]
  /\ collection = archivedItems(<<>>, "c1", <<M1>>, 1)
  /\ now = 2
  /\ held = [c \in ConvIds |-> NoResult]
  /\ task = [t \in TaskIds |-> IdleTask]
  /\ lastInit = [c \in ConvIds |-> NoInit]
  /\ InitNoScorer
  /\ tasks = {1}
  /\ convs = {"c1"}
  /\ texts = {M1, M2}
  /\ maxWordCount = RoundWordCount
  /\ retrieveLimit = RetrieveLimit
  /\ InitConnected

SpecRestart == InitRestart /\ [][Next]_vars

\* one caller and one conversation, with a retrieveLimit below the number of documents
InitLimit ==
  /\ InitOrch
  /\ InitNoScorer
  /\ tasks = {1}
  /\ convs = {"c1"}
  /\ texts = {M1, M2}
  /\ maxWordCount = MaxWordCount
  /\ retrieveLimit = SmallLimit
  /\ InitConnected

SpecLimit == InitLimit /\ [][Next]_vars

\* one caller and one conversation, with status queries and summaries
InitSummary ==
  /\ InitOrch
  /\ InitNoScorer
  /\ tasks = {1}
  /\ convs = {"c1"}
  /\ texts = {M1}
  /\ maxWordCount = MaxWordCount
  /\ retrieveLimit = RetrieveLimit
  /\ InitConnected

SpecSummary == InitSummary /\ [][NextSummary]_vars

\* one caller and two conversations: initialization, messages and removal
NextRemoveTwo ==
  \/ \E t \in TaskIds, c \in ConvIds : CallInitialize(t, c)
  \/ \E t \in TaskIds, c \in ConvIds, m \in Msgs : CallAddMessage(t, c, m)
  \/ \E t \in TaskIds : InitLookup(t)
  \/ \E t \in TaskIds : InitLoad(t)
  \/ \E t \in TaskIds : InitSave(t)
  \/ \E t \in TaskIds : AddSave(t)
  \/ \E t \in TaskIds : AddScore(t)
  \/ \E t \in TaskIds : AddRetrieve(t)
  \/ \E t \in TaskIds, c \in ConvIds : CallRemove(t, c)
  \/ \E t \in TaskIds : RemoveDelete(t)
  \/ \E t \in TaskIds : Return(t)

SpecRemoveTwo == InitTwo /\ [][NextRemoveTwo]_vars

\* one caller and two conversations: messages, archiving, removal and summaries
InitSummaryTwo ==
  /\ InitOrch
  /\ InitNoScorer
  /\ InitConnected
  /\ tasks = {1}
  /\ convs = ConvIds
  /\ texts = {M1}
  /\ maxWordCount = MaxWordCount
  /\ retrieveLimit = RetrieveLimit

NextSummaryTwo ==
  \/ \E t \in TaskIds, c \in ConvIds, m \in Msgs : CallAddMessage(t, c, m)
  \/ \E t \in TaskIds : InitLookup(t)
  \/ \E t \in TaskIds : InitLoad(t)
  \/ \E t \in TaskIds : InitSave(t)
  \/ \E t \in TaskIds : AddSave(t)
  \/ \E t \in TaskIds : AddScore(t)
  \/ \E t \in TaskIds : AddRetrieve(t)
  \/ \E t \in TaskIds, c \in ConvIds : CallExecuteArchive(t, c)
  \/ \E t \in TaskIds : ArchiveInsert(t)
  \/ \E t \in TaskIds : ArchiveSave(t)
  \/ \E t \in TaskIds, c \in ConvIds : CallRemove(t, c)
  \/ \E t \in TaskIds : RemoveDelete(t)
  \/ \E t \in TaskIds, c \in ConvIds, m \in Msgs : CallCreateSummary(t, c, m)
  \/ \E t \in TaskIds : SumRetrieve(t)
  \/ \E t \in TaskIds : SumInsert(t)
  \/ \E t \in TaskIds : SumLink(t)
  \/ \E t \in TaskIds : Return(t)

SpecSummaryTwo == InitSummaryTwo /\ [][NextSummaryTwo]_vars

TypeOK ==
  /\ \A o \in ObjIds : heap[o].live => heap[o].conversationId \in ConvIds
  /\ \A c \in ConvIds : conversations[c] # 0 => heap[conversations[c]].conversationId = c

\* --------------------------------------------- rate limiter (ratelimiter.ts)
\* requests.filter(time => time > windowStart)
recentRequests(times, windowStart) == SelectSeq(times, LAMBDA time : time > windowStart)

\* this.requests.size: the keys that have an entry
size(reqs) == Cardinality({k \in Keys : reqs[k] # <<>>})

\* a cleanup that deletes the entries of all keys
cleanupEverything(reqs, windowStart) == [k \in Keys |-> <<>>]

\* cleanup(windowStart): every entry keeps its recent requests; an entry without any is deleted
cleanup(reqs, windowStart) == [k \in Keys |-> recentRequests(reqs[k], windowStart)]

\* the map after isAllowed(key) at time t has recorded the request
recorded(reqs, key, t) ==
  LET windowStart == t - WindowMs
      set == [reqs EXCEPT ![key] = Append(recentRequests(reqs[key], windowStart), t)]
  IN IF size(set) > CleanupSize THEN cleanup(set, windowStart) ELSE set

\* isAllowed(key), Date.now() returning t: the clock does not run backwards
IsAllowed(key, t) ==
  /\ t >= clock
  /\ clock' = t
  /\ IF Len(recentRequests(requests[key], t - WindowMs)) >= MaxRequests
     THEN /\ answer' = [valid |-> TRUE, key |-> key, now |-> t, allowed |-> FALSE]
          /\ UNCHANGED <<requests, accepted>>
     ELSE /\ answer' = [valid |-> TRUE, key |-> key, now |-> t, allowed |-> TRUE]
          /\ requests' = recorded(requests, key, t)
          /\ accepted' = [accepted EXCEPT ![key] = Append(@, t)]
  /\ UNCHANGED <<clearedAt, cleared, wordCountCache, counted>>
  /\ UNCHANGED <<orchVars, connVars, scorerVars>>

\* getRemaining(key), Date.now() returning t
getRemaining(reqs, key, t) ==
  LET n == MaxRequests - Len(recentRequests(reqs[key], t - WindowMs))
  IN IF n > 0 THEN n ELSE 0

\* clear(): this.requests.clear()
Clear ==
  /\ ~cleared
  /\ cleared' = TRUE
  /\ requests' = [k \in Keys |-> <<>>]
  /\ clearedAt' = [k \in Keys |-> Len(accepted[k])]
  /\ answer' = NoAnswer
  /\ UNCHANGED <<clock, accepted, wordCountCache, counted>>
  /\ UNCHANGED <<orchVars, connVars, scorerVars>>

\* everything but the rate limiter and the word count utility is idle
InitOthersIdle ==
  /\ InitOrch
  /\ InitConnected
  /\ tasks = {}
  /\ convs = {}
  /\ texts = {}
  /\ maxWordCount = MaxWordCount
  /\ retrieveLimit = RetrieveLimit
  /\ scorerConfig = NoConfig
  /\ scorer = NoScorer
  /\ scoring = IdleScoring
  /\ embeddingCache = <<>>

InitLimiter ==
  /\ InitOthersIdle
  /\ InitRateLimiter
  /\ InitWordCount

NextLimiter ==
  \/ \E key \in Keys, t \in 0 .. MaxClock : IsAllowed(key, t)
  \/ Clear

SpecLimiter == InitLimiter /\ [][NextLimiter]_vars

\* ------------------------------------------ word count utility (wordcount)
\* the texts getWordCount is called with
WordTexts == {<<>>, <<" ">>, M1, M2, M3}

\* text.trim().split(/\s+/).filter(w => w.length > 0).length
countWords(text) == getWordCountNonEmpty(TrimLeft(TrimRight(text)))

\* wordCountCache.has(text)
wordCountCacheHas(cache, text) == \E i \in 1 .. Len(cache) : cache[i].text = text

\* wordCountCache.get(text)
wordCountCacheGet(cache, text) ==
  cache[CHOOSE i \in 1 .. Len(cache) : cache[i].text = text].count

\* an insertion that does not look at the size of the cache
wordCountCacheSetAlways(cache, text, count) == Append(cache, [text |-> text, count |-> count])

\* if (wordCountCache.size < MAX_CACHE_SIZE) wordCountCache.set(text, count), text not being cached
wordCountCacheSet(cache, text, count) ==
  IF Len(cache) < MaxWordCacheSize
  THEN Append(cache, [text |-> text, count |-> count])
  ELSE cache

\* getWordCount(text, useCache)
GetWordCount(text, useCache) ==
  /\ IF useCache /\ wordCountCacheHas(wordCountCache, text)
     THEN /\ counted' = [valid |-> TRUE, text |-> text, useCache |-> useCache,
                         count |-> wordCountCacheGet(wordCountCache, text)]
          /\ UNCHANGED wordCountCache
     ELSE /\ counted' = [valid |-> TRUE, text |-> text, useCache |-> useCache,
                         count |-> countWords(text)]
          /\ wordCountCache' = IF useCache
                               THEN wordCountCacheSet(wordCountCache, text, countWords(text))
                               ELSE wordCountCache
  /\ UNCHANGED limiterVars
  /\ UNCHANGED <<orchVars, connVars, scorerVars>>

\* clearWordCountCache()
ClearWordCountCache ==
  /\ wordCountCache' = <<>>
  /\ UNCHANGED counted
  /\ UNCHANGED limiterVars
  /\ UNCHANGED <<orchVars, connVars, scorerVars>>

InitCounting ==
  /\ InitOthersIdle
  /\ InitRateLimiter
  /\ InitWordCount

NextCounting ==
  \/ \E text \in WordTexts, useCache \in BOOLEAN : GetWordCount(text, useCache)
  \/ ClearWordCountCache

SpecCounting == InitCounting /\ [][NextCounting]_vars

\* ---------------------------------------------------------------- claims
\* no call is in progress
Quiescent == \A t \in TaskIds : task[t].pc \in {"idle", "done"}

\* a call of operation op has completed for task t
Done(t, op) == task[t].pc = "done" /\ task[t].op = op

\* C1: whenever no call is in progress, every conversation state has
\* totalWordCount equal to the sum of the word counts of its currentContext,
\* after any sequence of addMessage, executeArchive and executeRetrieval calls.
C1_WordCountMatchesContext ==
  Quiescent =>
    \A o \in ObjIds :
      heap[o].live => heap[o].totalWordCount = SumWords(heap[o].currentContext)

\* C2: when a store write of executeArchive failed (the insert or the save),
\* currentContext and totalWordCount are what they were before the call.
C2_ArchiveFailureRestoresState ==
  \A t \in TaskIds :
    (Done(t, "archive") /\ task[t].storeFailed) =>
      /\ heap[task[t].obj].currentContext = task[t].preContext
      /\ heap[task[t].obj].totalWordCount = task[t].preWordCount

\* a failed executeArchive whose save failed after the prefix had been removed
C2_Witness ==
  \E t \in TaskIds :
    /\ Done(t, "archive")
    /\ task[t].storeFailed
    /\ task[t].at = "save_arch"
    /\ Len(task[t].messagesToArchive) >= 1
    /\ Len(task[t].preContext) >= 1

\* C3: executeArchive and executeRetrieval never return normally when one of
\* their store writes failed: the failure reaches the caller.
C3_StoreFailureIsRethrown ==
  \A t \in TaskIds :
    ((Done(t, "archive") \/ Done(t, "retrieval")) /\ task[t].storeFailed) =>
      task[t].outcome = "error"

\* a failed executeRetrieval and a failed executeArchive have both been seen
C3_Witness ==
  \E t \in TaskIds :
    /\ Done(t, "retrieval")
    /\ task[t].storeFailed
    /\ task[t].outcome = "error"
    /\ task[t].at = "save_retr"

\* C4: when the save of executeRetrieval failed, currentContext and
\* totalWordCount are what they were before the call.
C4_RetrievalFailureRestoresState ==
  \A t \in TaskIds :
    (Done(t, "retrieval") /\ task[t].storeFailed) =>
      /\ heap[task[t].obj].currentContext = task[t].preContext
      /\ heap[task[t].obj].totalWordCount = task[t].preWordCount

\* a failed executeRetrieval that had prepended at least one retrieved text
C4_Witness ==
  \E t \in TaskIds :
    /\ Done(t, "retrieval")
    /\ task[t].storeFailed
    /\ Len(task[t].contextToRetrieve) >= 1

\* the step in which executeArchive of task t catches a store failure and rolls back
ArchiveRollbackStep(t) ==
  /\ task[t].op = "archive"
  /\ task[t].pc \in {"insert", "save_arch"}
  /\ task'[t].pc = "done"
  /\ task'[t].storeFailed

\* C5: concurrent executeArchive calls on one conversation do not interleave:
\* the rollback of a failed call gives back only what that call had removed
\* itself (nothing after a failed insert, its own prefix after a failed save),
\* so it never undoes a removal the other call committed.
C5_RollbackUndoesOnlyOwnRemoval ==
  [][\A t \in TaskIds :
       ArchiveRollbackStep(t) =>
         LET o == task[t].obj IN
         IF task[t].pc = "insert"
         THEN /\ heap'[o].currentContext = heap[o].currentContext
              /\ heap'[o].totalWordCount = heap[o].totalWordCount
         ELSE /\ heap[o].currentContext =
                   SubSeq(heap'[o].currentContext, Len(task[t].messagesToArchive) + 1,
                          Len(heap'[o].currentContext))
              /\ heap[o].totalWordCount =
                   heap'[o].totalWordCount - SumWords(task[t].messagesToArchive)]_vars

\* a caller enters connect() in this step
EntersConnect(t) == caller[t].pc = "idle" /\ caller'[t].pc # "idle"

\* C6: at most one connection attempt is in flight at any time; a caller that
\* arrives while an attempt is in flight waits for that attempt and creates no
\* client; once an attempt has succeeded no connect() call creates a client.
C6_SingleConnectionAttempt ==
  [][/\ Cardinality(InFlight') <= 1
     /\ \A t \in TaskIds :
          (EntersConnect(t) /\ InFlight # {}) =>
            /\ caller'[t].pc = "waiting"
            /\ caller'[t].awaiting \in InFlight
            /\ clientsCreated' = clientsCreated
     /\ (\E k \in AttemptIds : attempt[k] = "resolved") => clientsCreated' = clientsCreated]_vars

\* C7: the in-flight marker is cleared when the attempt settles (a settled
\* attempt still marked has its owner about to clear it), and after a failed
\* attempt the next connect() call starts a new attempt.
C7_FailedAttemptIsRetried ==
  [][/\ (connectionPromise' # 0 /\ attempt'[connectionPromise'] \in {"resolved", "rejected"}) =>
          \E t \in TaskIds : caller'[t].pc = "owner" /\ caller'[t].awaiting = connectionPromise'
     /\ \A t \in TaskIds :
          (EntersConnect(t) /\ lastFailed /\ connectionPromise = 0) =>
            /\ caller'[t].pc = "owner"
            /\ clientsCreated' = clientsCreated + 1]_vars

\* C8: the cached state of a conversation never holds a change (its creation
\* included) that the store does not hold: the store is written first.
C8_CacheNeverAheadOfStore ==
  \A c \in ConvIds :
    conversations[c] # 0 =>
      /\ stateCollection[c].present
      /\ stateCollection[c].currentContext = heap[conversations[c]].currentContext
      /\ stateCollection[c].totalWordCount = heap[conversations[c]].totalWordCount

\* C9: a second initializeConversation of an id, with calls on other
\* conversations only since the first, returns a state with the same
\* conversationId, currentContext and totalWordCount; it is the cached state,
\* neither loaded from the store again nor created.
C9_InitializeIsIdempotent ==
  \A t \in TaskIds :
    (Done(t, "init") /\ task[t].outcome = "ok" /\ task[t].prev.valid) =>
      /\ task[t].source = "cache"
      /\ heap[task[t].obj].conversationId = task[t].conv
      /\ heap[task[t].obj].currentContext = task[t].prev.currentContext
      /\ heap[task[t].obj].totalWordCount = task[t].prev.totalWordCount
      /\ ~task[t].created

\* a second initializeConversation has returned a state with messages, after
\* calls on the other conversation
C9_Witness ==
  \E t \in TaskIds :
    /\ Done(t, "init")
    /\ task[t].outcome = "ok"
    /\ task[t].prev.valid
    /\ task[t].prev.between
    /\ Len(heap[task[t].obj].currentContext) >= 1

\* C10: initializeConversation returns the cached state when there is one;
\* otherwise the stored state, which it caches; it creates an empty state,
\* which it persists, only when neither exists, so that a stored state is
\* never replaced by a fresh empty one.
C10_InitializePrecedence ==
  [][\A t \in TaskIds :
       LET c == task[t].conv IN
       /\ (task[t].pc = "lookup" /\ task'[t].pc # "lookup" /\ conversations[c] # 0) =>
            /\ task'[t].obj = conversations[c]
            /\ task'[t].source = "cache"
            /\ conversations' = conversations
            /\ stateCollection' = stateCollection
            /\ task[t].op = "init" => heap'[task'[t].obj] = heap[conversations[c]]
       /\ (task[t].pc = "load" /\ task'[t].pc # "load" /\ ~task'[t].storeFailed
             /\ stateCollection[c].present) =>
            /\ task'[t].source = "store"
            /\ ~task'[t].created
            /\ conversations'[c] = task'[t].obj
            /\ stateCollection' = stateCollection
            /\ task[t].op = "init" =>
                 /\ heap'[task'[t].obj].currentContext = stateCollection[c].currentContext
                 /\ heap'[task'[t].obj].totalWordCount = stateCollection[c].totalWordCount
       /\ (task'[t].created /\ ~task[t].created /\ task[t].pc # "idle") =>
            /\ conversations[c] = 0
            /\ ~stateCollection[c].present
            /\ task'[t].pc = "save_new"
            /\ conversations'[c] = task'[t].obj
            /\ heap'[task'[t].obj].currentContext = <<>>
            /\ heap'[task'[t].obj].totalWordCount = 0
       /\ (task[t].pc = "save_new" /\ stateCollection' # stateCollection) =>
            /\ ~stateCollection[c].present
            /\ stateCollection'[c].currentContext = <<>>
            /\ stateCollection'[c].totalWordCount = 0]_vars

\* initializeConversation has returned a state with messages that it loaded from the store
C10_Witness ==
  \E t \in TaskIds :
    /\ Done(t, "init")
    /\ task[t].outcome = "ok"
    /\ task[t].source = "store"
    /\ Len(heap[task[t].obj].currentContext) >= 1
    /\ conversations[task[t].conv] = task[t].obj

\* the archived documents without their scores
Unscored(coll) == [i \in 1 .. Len(coll) |-> [coll[i] EXCEPT !.relevanceScore = NoScore]]

\* C11: addMessage only appends: when it returns, currentContext is the window
\* it started from with the message as last element, totalWordCount has grown
\* by the message's word count, and no step of the call inserts, removes or
\* rewrites the text of a stored document.
C11_AddMessageOnlyAppends ==
  [][\A t \in TaskIds :
       (task[t].op = "add" /\ task'[t].op = "add") =>
         /\ Unscored(collection') = Unscored(collection)
         /\ (task[t].pc # "done" /\ task'[t].pc = "done" /\ task'[t].outcome = "ok") =>
              /\ heap'[task'[t].obj].currentContext = Append(task'[t].preContext, task'[t].msg)
              /\ heap'[task'[t].obj].totalWordCount =
                   task'[t].preWordCount + getWordCount(task'[t].msg)]_vars

\* addMessage has returned a positive archive decision for a window of several messages
C11_Witness ==
  \E t \in TaskIds :
    /\ Done(t, "add")
    /\ task[t].outcome = "ok"
    /\ task[t].shouldArchive
    /\ Len(task[t].preContext) >= 2
    /\ task[t].msg # task[t].preContext[1]
\* C12: the archive decision addMessage returns is positive exactly when, after
\* the append, totalWordCount / maxWordCount >= archiveThreshold.
C12_ArchiveDecisionAtThreshold ==
  \A t \in TaskIds :
    (Done(t, "add") /\ task[t].outcome = "ok") =>
      (held[task[t].conv].shouldArchive <=>
         heap[task[t].obj].totalWordCount * ArchiveThresholdDen >= ArchiveThresholdNum * maxWordCount)

\* addMessage has returned a positive decision at a ratio of exactly archiveThreshold
C12_Witness ==
  \E t \in TaskIds :
    /\ Done(t, "add")
    /\ task[t].outcome = "ok"
    /\ held[task[t].conv].shouldArchive
    /\ heap[task[t].obj].totalWordCount * ArchiveThresholdDen = ArchiveThresholdNum * maxWordCount

\* C13: in a positive archive decision messagesToArchive is the first
\* floor(n * archivePercentage) entries of currentContext, in order, n being the
\* length after the append; the newest message is never among them.
C13_OldestFirstCandidates ==
  \A t \in TaskIds :
    (Done(t, "add") /\ task[t].outcome = "ok" /\ held[task[t].conv].shouldArchive) =>
      LET ctx == heap[task[t].obj].currentContext
          mta == held[task[t].conv].messagesToArchive
          n == Len(ctx)
          k == Len(mta)
      IN /\ k * ArchivePercentageDen <= n * ArchivePercentageNum
         /\ n * ArchivePercentageNum < (k + 1) * ArchivePercentageDen
         /\ k < n
         /\ \A i \in 1 .. k : mta[i] = ctx[i]

\* addMessage has returned a positive decision with a candidate that differs from the newest message
C13_Witness ==
  \E t \in TaskIds :
    /\ Done(t, "add")
    /\ task[t].outcome = "ok"
    /\ held[task[t].conv].shouldArchive
    /\ Len(held[task[t].conv].messagesToArchive) >= 1
    /\ held[task[t].conv].messagesToArchive[1] # task[t].msg

\* C14: a positive archive decision returned by addMessage names at least one message.
C14_PositiveDecisionHasCandidates ==
  \A t \in TaskIds :
    (Done(t, "add") /\ task[t].outcome = "ok" /\ held[task[t].conv].shouldArchive) =>
      Len(held[task[t].conv].messagesToArchive) >= 1
\* the decision of an executeArchive call was taken on the state as it is at the call
FreshArchive(tk) ==
  /\ tk.op = "archive"
  /\ tk.shouldArchive
  /\ Len(tk.messagesToArchive) <= Len(tk.preContext)
  /\ tk.messagesToArchive = SubSeq(tk.preContext, 1, Len(tk.messagesToArchive))

\* the step of task t inserted one archived document per candidate, holding the
\* candidate's text as it is or trimmed
InsertedCandidates(t, trimmed) ==
  LET k == Len(task[t].messagesToArchive)
      base == Len(collection)
  IN /\ Len(collection') = base + k
     /\ SubSeq(collection', 1, base) = collection
     /\ \A i \in 1 .. k :
          /\ collection'[base + i].conversationId = task[t].conv
          /\ collection'[base + i].contextType = "archived"
          /\ collection'[base + i].memories =
               IF trimmed THEN sanitizeInput(task[t].messagesToArchive[i])
               ELSE task[t].messagesToArchive[i]

\* the step of task t completed executeArchive with the candidates removed from the front
RemovedPrefix(t) ==
  LET k == Len(task[t].messagesToArchive)
      o == task[t].obj
  IN /\ heap'[o].currentContext = SubSeq(task[t].preContext, k + 1, Len(task[t].preContext))
     /\ heap'[o].totalWordCount = task[t].preWordCount - SumWords(task[t].messagesToArchive)
     /\ collection' = collection

\* C15, the stored texts being the candidates' texts unchanged: a successful executeArchive of a decision taken on the current
\* state removes the k candidates from the front of currentContext, keeps the rest
\* in order, lowers totalWordCount by the candidates' word counts and inserts
\* exactly k archived documents of the conversation holding the candidates' texts.
C15_ArchiveStoresCandidateTexts ==
  [][\A t \in TaskIds :
       FreshArchive(task[t]) =>
         /\ (task[t].pc = "insert" /\ task'[t].pc = "save_arch") =>
              InsertedCandidates(t, FALSE)
         /\ (task[t].pc = "save_arch" /\ task'[t].pc = "done" /\ task'[t].outcome = "ok") =>
              RemovedPrefix(t)]_vars

\* C15, the stored texts being the trimmed candidates: a successful executeArchive
\* of a decision taken on the current state removes the k candidates from the
\* front of currentContext, keeps the rest in order, lowers totalWordCount by the
\* candidates' word counts and inserts exactly k archived documents of the
\* conversation holding the candidates' texts without leading and trailing whitespace.
C15_ArchiveStoresTrimmedTexts ==
  [][\A t \in TaskIds :
       FreshArchive(task[t]) =>
         /\ (task[t].pc = "insert" /\ task'[t].pc = "save_arch") =>
              InsertedCandidates(t, TRUE)
         /\ (task[t].pc = "save_arch" /\ task'[t].pc = "done" /\ task'[t].outcome = "ok") =>
              RemovedPrefix(t)]_vars

\* executeArchive has succeeded on a fresh decision whose candidate starts with whitespace
C15_Witness ==
  \E t \in TaskIds :
    /\ Done(t, "archive")
    /\ task[t].outcome = "ok"
    /\ FreshArchive(task[t])
    /\ Len(task[t].messagesToArchive) >= 1
    /\ task[t].messagesToArchive[1] = M3
    /\ heap[task[t].obj].currentContext # SubSeq(task[t].preContext, 1, Len(task[t].preContext) - 1)
\* C16: when totalWordCount / maxWordCount > retrieveThreshold after the append,
\* addMessage returns straight after its save with a negative retrieval decision
\* and an empty contextToRetrieve, without a scoring pass and without a change
\* in the store's documents; at a ratio up to and including retrieveThreshold
\* it goes on to score the archived documents.
C16_NoRetrievalAboveThreshold ==
  [][\A t \in TaskIds :
       LET o == task'[t].obj
           above == heap'[o].totalWordCount * RetrieveThresholdDen > RetrieveThresholdNum * maxWordCount
       IN /\ (task[t].op = "add" /\ task[t].pc # "done" /\ task'[t].pc = "done"
                /\ task'[t].outcome = "ok" /\ above) =>
               /\ task[t].pc = "save_add"
               /\ collection' = collection
               /\ ~held'[task[t].conv].shouldRetrieve
               /\ held'[task[t].conv].contextToRetrieve = <<>>
          /\ (task[t].op = "add" /\ task[t].pc = "save_add" /\ ~task'[t].storeFailed /\ ~above) =>
               task'[t].pc = "score"]_vars

\* addMessage has returned above the retrieve threshold while the store holds an
\* archived document of the conversation whose score a scoring pass would change
C16_Witness ==
  \E t \in TaskIds :
    /\ Done(t, "add")
    /\ task[t].outcome = "ok"
    /\ heap[task[t].obj].totalWordCount * RetrieveThresholdDen > RetrieveThresholdNum * maxWordCount
    /\ \E i \in 1 .. Len(collection) :
         /\ collection[i].conversationId = task[t].conv
         /\ collection[i].contextType = "archived"
         /\ collection[i].relevanceScore #
              relevanceScore(Join(heap[task[t].obj].currentContext), collection[i].memories)
\* the archived documents of conversation c in the store
ArchivedOf(c) ==
  {i \in 1 .. Len(collection) :
     collection[i].conversationId = c /\ collection[i].contextType = "archived"}

RECURSIVE textsOf(_)
\* the texts of the documents of a retrieval decision, in the decision's order
textsOf(items) ==
  IF items = <<>> THEN <<>> ELSE <<Head(items).memories>> \o textsOf(Tail(items))

C20_SummaryOfUnknownIsRejected ==
  [][\A t \in TaskIds :
       (task[t].pc = "idle" /\ task'[t].op = "summary" /\ conversations[task'[t].conv] = 0) =>
         /\ task'[t].pc = "done"
         /\ task'[t].outcome = "error"
         /\ task'[t].at = "not_found"
         /\ ~task'[t].storeFailed
         /\ collection' = collection
         /\ stateCollection' = stateCollection
         /\ conversations' = conversations]_vars

\* createSummary of an unknown id has been rejected while the store holds
\* scored archived documents of that id
C20_Witness ==
  \E t \in TaskIds :
    /\ Done(t, "summary")
    /\ task[t].outcome = "error"
    /\ task[t].at = "not_found"
    /\ conversations[task[t].conv] = 0
    /\ \E i \in ArchivedOf(task[t].conv) :
         ScoreGeq(collection[i].relevanceScore, SummaryMinNum, SummaryMinDen)

\* C21: createSummary of a known conversation that has no archived document in
\* the store fails: with the empty-input error whenever the store answers the
\* query, and with the store's error otherwise.  No step of the failed call
\* inserts a summary document or changes a document.
C21_SummaryOfNothingIsRejected ==
  [][\A t \in TaskIds :
       /\ (task[t].pc = "idle" /\ task'[t].op = "summary") => collection' = collection
       /\ (task[t].pc = "sum_retrieve" /\ ArchivedOf(task[t].conv) = {}) =>
            /\ task'[t].pc = "done"
            /\ task'[t].outcome = "error"
            /\ ~task'[t].storeFailed => task'[t].at = "empty_input"
            /\ collection' = collection
            /\ stateCollection' = stateCollection]_vars

\* createSummary of a cached conversation without archived documents has been
\* rejected with the empty-input error
C21_Witness ==
  \E t \in TaskIds :
    /\ Done(t, "summary")
    /\ task[t].outcome = "error"
    /\ task[t].at = "empty_input"
    /\ ~task[t].storeFailed
    /\ conversations[task[t].conv] # 0
    /\ Len(heap[conversations[task[t].conv]].currentContext) > 0
    /\ ArchivedOf(task[t].conv) = {}

\* C22: a createSummary call that succeeds consumes between one and ten
\* documents, each an archived document of the conversation as the store holds
\* it with a score of at least 0.1; it inserts exactly one document, of
\* contextType summary for that conversation, and sets parentContextId of every
\* consumed document to the id of that summary.  No other document (of another
\* conversation, or not consumed) is changed.
C22_SummaryLinksConsumedItems ==
  [][\A t \in TaskIds :
       /\ (task[t].pc = "sum_retrieve" /\ task'[t].pc = "sum_insert") =>
            LET items == task'[t].contextToRetrieve IN
            /\ collection' = collection
            /\ Len(items) >= 1
            /\ Len(items) <= SummaryLimit
            /\ \A j, k \in 1 .. Len(items) : items[j].id = items[k].id => j = k
            /\ \A j \in 1 .. Len(items) :
                 /\ items[j].id \in ArchivedOf(task[t].conv)
                 /\ items[j] = collection[items[j].id]
                 /\ ScoreGeq(items[j].relevanceScore, SummaryMinNum, SummaryMinDen)
       /\ (task[t].pc = "sum_insert" /\ task'[t].pc = "sum_link") =>
            /\ Len(collection') = Len(collection) + 1
            /\ \A i \in 1 .. Len(collection) : collection'[i] = collection[i]
            /\ collection'[Len(collection')].contextType = "summary"
            /\ collection'[Len(collection')].conversationId = task[t].conv
            /\ collection'[Len(collection')].memories = task[t].msg
            /\ collection'[Len(collection')].id = task'[t].summaryId
            /\ \A i \in 1 .. Len(collection) : collection[i].id # task'[t].summaryId
       /\ (task[t].pc = "sum_link" /\ task'[t].pc = "done" /\ task'[t].outcome = "ok") =>
            LET items == task[t].contextToRetrieve
                itemIds == {items[j].id : j \in 1 .. Len(items)}
            IN /\ Len(collection') = Len(collection)
               /\ \A i \in 1 .. Len(collection) :
                    IF collection[i].id \in itemIds
                    THEN collection'[i] = [collection[i] EXCEPT !.parentContextId = task[t].summaryId]
                    ELSE collection'[i] = collection[i]]_vars

\* a summary has been created for one conversation, its consumed document is
\* linked to it, and the store holds an archived document of another conversation
C22_Witness ==
  \E t \in TaskIds :
    /\ Done(t, "summary")
    /\ task[t].outcome = "ok"
    /\ \E i \in ArchivedOf(task[t].conv) : collection[i].parentContextId = task[t].summaryId
    /\ \E i \in 1 .. Len(collection) :
         /\ collection[i].conversationId # task[t].conv
         /\ collection[i].contextType = "archived"
         /\ collection[i].parentContextId = 0

\* C23: when removeConversation(id) returns, id is not in the cache (so
\* getActiveConversations does not list it) and the store holds no state document
\* of id.  Removing an id that is in neither returns as well and changes
\* nothing.  No step of the call changes the cache entry, the state object, the
\* state document or the archived documents of another conversation.
C23_RemoveIsIdempotent ==
  [][\A t \in TaskIds :
       /\ (task[t].pc = "idle" /\ task'[t].op = "remove") =>
            LET c == task'[t].conv IN
            /\ conversations'[c] = 0
            /\ \A d \in ConvIds \ {c} :
                 /\ conversations'[d] = conversations[d]
                 /\ conversations[d] # 0 => heap'[conversations[d]] = heap[conversations[d]]
            /\ stateCollection' = stateCollection
            /\ collection' = collection
       /\ (task[t].pc = "delete" /\ task'[t].pc = "done") =>
            LET c == task[t].conv IN
            /\ task'[t].outcome = "ok" \/ task'[t].storeFailed
            /\ task'[t].outcome = "ok" =>
                 /\ conversations'[c] = 0
                 /\ ~stateCollection'[c].present
                 /\ ~stateCollection[c].present => stateCollection' = stateCollection
            /\ conversations' = conversations
            /\ \A d \in ConvIds \ {c} :
                 /\ stateCollection'[d] = stateCollection[d]
                 /\ conversations[d] # 0 => heap'[conversations[d]] = heap[conversations[d]]
            /\ collection' = collection]_vars

\* a conversation has been removed while another conversation is cached with
\* messages and has its state document
C23_Witness ==
  \E t \in TaskIds :
    /\ Done(t, "remove")
    /\ task[t].outcome = "ok"
    /\ \E d \in ConvIds \ {task[t].conv} :
         /\ conversations[d] # 0
         /\ Len(heap[conversations[d]].currentContext) > 0
         /\ stateCollection[d].present

\* C24: the first initializeConversation(id) that returns after a
\* removeConversation(id) has returned, with no other call on id in between,
\* returns a state with an empty currentContext and totalWordCount 0, whatever
\* the conversation held before.
C24_ReinitializedIsBrandNew ==
  \A t \in TaskIds :
    (Done(t, "init") /\ task[t].outcome = "ok" /\ task[t].prev.removed) =>
      /\ heap[task[t].obj].currentContext = <<>>
      /\ heap[task[t].obj].totalWordCount = 0

\* a conversation that had archived part of its window was removed and then
\* initialized again
C24_Witness ==
  \E t \in TaskIds :
    /\ Done(t, "init")
    /\ task[t].outcome = "ok"
    /\ task[t].prev.removed
    /\ ArchivedOf(task[t].conv) # {}

\* C25: the keyword scorer gives every memory the score |intersection| / |union|
\* of the word sets of currentContext and of the memory's joined text: 1 for
\* equal word sets, 0 for disjoint ones; and it gives 0 when both texts are the
\* empty string.
C25_KeywordScoreIsJaccard ==
  (scoring.pc = "done" /\ scorer.name = "keyword") =>
    \A j \in 1 .. Len(scoring.result) :
      LET itemText == Join(scoring.result[j].memories)
          score == scoring.result[j].relevanceScore
          currentWords == SeqToSet(Split(toLowerCase(scoring.currentContext)))
          itemWords == SeqToSet(Split(toLowerCase(itemText)))
          intersection == currentWords \cap itemWords
          union == currentWords \cup itemWords
      IN IF scoring.currentContext = <<>> /\ itemText = <<>>
         THEN score.n = 0
         ELSE score.n * Cardinality(union) = Cardinality(intersection) * score.d

\* the memories of a list, each without its score, as a bag
memoryBag(list) ==
  [m \in {[memories |-> list[i].memories, embedding |-> list[i].embedding] :
             i \in 1 .. Len(list)} |->
     Cardinality({i \in 1 .. Len(list) :
                    [memories |-> list[i].memories, embedding |-> list[i].embedding] = m})]

\* C26: the keyword scorer returns one scored memory for each memory given (none
\* for the empty list), every score between 0 and 1, in non-increasing order of
\* the scores.
C26_KeywordResultIsSortedAndComplete ==
  (scoring.pc = "done" /\ scorer.name = "keyword") =>
    /\ scoring.outcome = "ok"
    /\ Len(scoring.result) = Len(scoring.memories)
    /\ memoryBag(scoring.result) = memoryBag(scoring.memories)
    /\ \A j \in 1 .. Len(scoring.result) :
         LET score == scoring.result[j].relevanceScore
         IN score.d > 0 /\ score.n >= 0 /\ score.n <= score.d
    /\ \A j, k \in 1 .. Len(scoring.result) :
         j < k => ~ScoreGt(scoring.result[k].relevanceScore, scoring.result[j].relevanceScore)

\* two memories were given with the lower-scoring one first, and came back with
\* the higher-scoring one first
C26_Witness ==
  /\ scoring.pc = "done"
  /\ scorer.name = "keyword"
  /\ Len(scoring.memories) = 2
  /\ scoring.result[1].memories = scoring.memories[2].memories
  /\ scoring.result[2].memories = scoring.memories[1].memories
  /\ ScoreGt(scoring.result[1].relevanceScore, scoring.result[2].relevanceScore)
  /\ scoring.result[2].relevanceScore.n > 0

\* C27: when the provider fails for the text of a memory, the SBERT scorer's
\* call still returns: that memory has score 0 and every other memory has its
\* score (half of one plus the cosine of its embedding and the context's, or 0
\* when the two embeddings do not have the same length).
C27_ItemFailureScoresZero ==
  (scoring.pc = "done" /\ scoring.warned # {}) =>
    /\ scoring.outcome = "ok"
    /\ Len(scoring.result) = Len(scoring.memories)
    /\ memoryBag(scoring.result) = memoryBag(scoring.scored)
    /\ \A i \in 1 .. Len(scoring.memories) :
         LET item == scoring.scored[i] IN
         /\ item.memories = scoring.memories[i].memories
         /\ i \in scoring.warned =>
              /\ item.relevanceScore = [n |-> 0, d |-> 1]
              /\ item.embedding = <<>>
         /\ i \notin scoring.warned =>
              IF item.embedding # <<>> /\ Len(item.embedding[1]) = Len(scoring.currentEmbedding)
              THEN item.relevanceScore =
                     [n |-> dotProduct(scoring.currentEmbedding, item.embedding[1]) + 1, d |-> 2]
              ELSE item.relevanceScore = [n |-> 0, d |-> 1]

\* a call returned with one memory whose provider call failed and another
\* memory scored above 0
C27_Witness ==
  /\ scoring.pc = "done"
  /\ scoring.outcome = "ok"
  /\ scoring.warned # {}
  /\ \E i \in 1 .. Len(scoring.memories) :
       i \notin scoring.warned /\ scoring.scored[i].relevanceScore.n > 0

\* C28: a scoreRelevance call of the SBERT scorer never throws, whichever
\* provider call fails, the one for currentContext included: it returns with
\* the scores of the failed texts at 0.
C28_ScoringFailureNeverAborts ==
  scoring.pc = "done" => scoring.outcome = "ok"

\* C29: createScorer returns a scorer for every configuration: the SBERT scorer
\* for type sbert with a service URL, the given instance for type custom with
\* an instance, and the keyword scorer for everything else (type keyword, sbert
\* without URL, custom without instance, unknown type).
C29_CreateScorerFallsBack ==
  scorer # NoScorer =>
    /\ scorer # FailedScorer
    /\ IF scorerConfig.type = "sbert" /\ scorerConfig.sbertServiceUrl \notin {<<>>, <<"">>}
       THEN /\ scorer.name = "sbert"
            /\ scorer.serviceUrl = scorerConfig.sbertServiceUrl[1]
            /\ scorerConfig.sbertModel # <<>> => scorer.model = scorerConfig.sbertModel[1]
       ELSE IF scorerConfig.type = "custom" /\ scorerConfig.customScorer # <<>>
       THEN scorer = scorerConfig.customScorer[1]
       ELSE scorer.name = "keyword"

\* type sbert without a service URL gave the keyword scorer
C29_Witness ==
  /\ scorerConfig.type = "sbert"
  /\ scorerConfig.sbertServiceUrl = <<>>
  /\ scorer.name = "keyword"

\* C30: the embedding cache never holds more than its limit of entries; an
\* insertion into a full cache drops the entry inserted first; and a text whose
\* key is cached is answered without a provider call.
C30_EmbeddingCacheIsBounded ==
  [][/\ Len(embeddingCache') <= MaxCacheEntries
     /\ (Len(embeddingCache) = MaxCacheEntries /\ Len(embeddingCache') = MaxCacheEntries
           /\ embeddingCache' # embeddingCache
           /\ \A i \in 1 .. Len(embeddingCache) :
                embeddingCache[i].key # embeddingCache'[Len(embeddingCache')].key) =>
          SubSeq(embeddingCache', 1, MaxCacheEntries - 1) = Tail(embeddingCache)
     /\ (scoring.pc = "idle" /\ scoring'.pc # "idle"
           /\ cacheHas(embeddingCache, getCacheKey(scoring'.currentContext))) =>
          /\ scoring'.pc # "query"
          /\ scoring'.currentEmbedding =
               cacheGet(embeddingCache, getCacheKey(scoring'.currentContext))]_vars

\* the archived documents that the executeArchive call of task t, the only call
\* since, inserted: archiveContext stamped them with the clock value before `now`
AttemptItems(t) ==
  {i \in ArchivedOf(task[t].conv) : collection[i].timestamp = now - 1}

\* C31: executeArchive is all-or-nothing across its two store writes: when the
\* save of the state failed after the archived documents had been inserted, no
\* archived document of that attempt remains in the store, so no message is both
\* in currentContext and held as an archived document of the failed attempt.
C31_ArchiveIsAllOrNothing ==
  \A t \in TaskIds :
    (Done(t, "archive") /\ task[t].storeFailed /\ task[t].at = "save_arch") =>
      AttemptItems(t) = {}

\* C32: whenever no call is in progress, the cached currentContext and
\* totalWordCount of every cached conversation equal those of its state
\* document in the store, also after an initializeConversation, addMessage,
\* executeArchive or executeRetrieval call that failed on a store write.
C32_QuiescentCacheEqualsStore ==
  Quiescent =>
    \A c \in ConvIds :
      conversations[c] # 0 =>
        /\ stateCollection[c].present
        /\ stateCollection[c].currentContext = heap[conversations[c]].currentContext
        /\ stateCollection[c].totalWordCount = heap[conversations[c]].totalWordCount

\* C33: two addMessage calls issued concurrently for an id that is in neither
\* the cache nor the store (both miss the cache in their initializeConversation)
\* end with one state object in the cache that both callers hold: neither call
\* replaces the state object the other received, so the cached state has the
\* messages of both.
C33_ConcurrentFirstCallsShareState ==
  \A t1, t2 \in TaskIds :
    (/\ t1 # t2
     /\ Done(t1, "add") /\ task[t1].outcome = "ok" /\ task[t1].source # "cache"
     /\ Done(t2, "add") /\ task[t2].outcome = "ok" /\ task[t2].source # "cache"
     /\ task[t1].conv = task[t2].conv) =>
      /\ task[t1].obj = task[t2].obj
      /\ conversations[task[t1].conv] = task[t1].obj
      /\ Len(heap[task[t1].obj].currentContext) >= 2

\* C34: no addMessage result has both a positive archive decision and a positive
\* retrieval decision: with archiveThreshold above retrieveThreshold the two are
\* never true together for the same state.
C34_NeverArchiveAndRetrieve ==
  \A c \in ConvIds :
    held[c].valid => ~(held[c].shouldArchive /\ held[c].shouldRetrieve)

\* addMessage has returned a positive retrieval decision with a document in it
C34_Witness ==
  \E t \in TaskIds :
    /\ Done(t, "add")
    /\ task[t].outcome = "ok"
    /\ held[task[t].conv].shouldRetrieve
    /\ Len(held[task[t].conv].contextToRetrieve) >= 1
    /\ ~held[task[t].conv].shouldArchive

\* C36: after removeConversation(id) followed by the re-initialization of id
\* (here by the addMessage that comes next on id, every archived document of id
\* being older than the removal), no retrieval decision for id contains a
\* document archived before the removal: the decision of that call is negative.
C36_RemovedArchiveIsUnreachable ==
  \A t \in TaskIds :
    (Done(t, "add") /\ task[t].outcome = "ok" /\ task[t].prev.removed /\ task[t].created) =>
      /\ ~held[task[t].conv].shouldRetrieve
      /\ held[task[t].conv].contextToRetrieve = <<>>

\* C35: an archived document is reinstated at most once: when executeRetrieval
\* has prepended the texts of a decision to currentContext and the next call on
\* the conversation is an addMessage, the retrieval decision of that addMessage
\* contains none of those documents while their texts are still in currentContext.
C35_ReinstatedAtMostOnce ==
  [][\A t \in TaskIds :
       LET c == task[t].conv
           o == task[t].obj
       IN (/\ task[t].op = "add" /\ task[t].pc = "retrieve"
           /\ task'[t].pc = "done" /\ task'[t].outcome = "ok"
           /\ task[t].prev.retrieved
           /\ held[c].state = o) =>
            \A i \in 1 .. Len(held'[c].contextToRetrieve), j \in 1 .. Len(held[c].contextToRetrieve) :
              (\E k \in 1 .. Len(heap[o].currentContext) :
                 heap[o].currentContext[k] = held[c].contextToRetrieve[j].memories) =>
                held'[c].contextToRetrieve[i].id # held[c].contextToRetrieve[j].id]_vars

\* C37: createSummary of a known conversation that has at least one archived
\* document in the store does not fail with the empty-input error, also when no
\* scoring pass has run since the documents were archived and their
\* relevanceScore is still absent.
C37_SummaryOfUnscoredArchive ==
  \A t \in TaskIds :
    (Done(t, "summary") /\ ArchivedOf(task[t].conv) # {}) =>
      ~(task[t].outcome = "error" /\ task[t].at = "empty_input")

\* how many of the timestamps lie in the window (t - windowMs, t]
InWindow(times, t) ==
  Cardinality({i \in 1 .. Len(times) : times[i] > t - WindowMs /\ times[i] <= t})

\* the accepted requests of every key since the last clear()
SinceClear(acc, at) == [k \in Keys |-> SubSeq(acc[k], at[k] + 1, Len(acc[k]))]

\* what an isAllowed call does, `before` and `after` being the accepted requests
\* that count, before and after the call: every window holds at most maxRequests
\* of them; the call returns false exactly when maxRequests of the key lie in the
\* current window; a rejected call changes what is left for no key; and a call
\* changes what is left for no other key
LimiterStep(before, after) ==
  answer'.valid =>
    LET key == answer'.key
        t == answer'.now
    IN /\ \A k \in Keys, u \in 0 .. MaxClock : InWindow(after[k], u) <= MaxRequests
       /\ ~answer'.allowed <=> InWindow(before[key], t) = MaxRequests
       /\ ~answer'.allowed =>
            \A k \in Keys, u \in t .. MaxClock :
              getRemaining(requests', k, u) = getRemaining(requests, k, u)
       /\ \A k \in Keys \ {key}, u \in t .. MaxClock :
            getRemaining(requests', k, u) = getRemaining(requests, k, u)

C39_WordCountCacheIsTransparent ==
  /\ Len(wordCountCache) <= MaxWordCacheSize
  /\ \A i \in 1 .. Len(wordCountCache) : wordCountCache[i].count = countWords(wordCountCache[i].text)
  /\ counted.valid => counted.count = countWords(counted.text)

\* a cached call has been answered from the cache while the cache is full, and
\* the cached count differs from the count of the other cached text
C39_Witness ==
  /\ Len(wordCountCache) = MaxWordCacheSize
  /\ counted.valid
  /\ counted.useCache
  /\ wordCountCacheHas(wordCountCache, counted.text)
  /\ \E i \in 1 .. Len(wordCountCache) : wordCountCache[i].count # counted.count

====
